---- MODULE Spec2Model ----
(***************************************************************************)
(* Market dashboard Netlify functions: the VIX fallback chain with its     *)
(* in-memory cache (vixIndex.js), the gold fallback chain (gold.js), the   *)
(* yield-spread endpoint (yieldSpread.js), the DXY endpoint (dxy.js) and   *)
(* the retrying transport helpers fetchJsonWithRetry / fetchTextWithRetry. *)
(*                                                                         *)
(* Numbers are integers in thousandths (4.20 is 4200); percentages are in  *)
(* thousandths of a percent.  Times are milliseconds.                      *)
(***************************************************************************)
EXTENDS Integers, Sequences, FiniteSets, TLC

VARIABLES
    fn,       \* the function module this process hosts
    env,      \* process.env: which API keys are set
    now,      \* Date.now()
    cached,   \* vixIndex.js module-level cache
    vix,      \* the VIX handler invocation
    call,     \* the fetchJsonWithRetry / fetchTextWithRetry call in progress
    gold,     \* the gold handler invocation
    ys,       \* the yieldSpread handler invocation
    dxy,      \* the dxy handler invocation
    agg,      \* the fetchAllData handler invocation
    probe,    \* the last direct call of an adapter: its input and its result
    reqs,     \* the VIX handler invocations running side by side (<<>>: none)
    writes,   \* every value assigned to cached so far, in order
    net       \* the addresses the VIX invocation has requested so far, in order

vars == <<fn, env, now, cached, vix, call, gold, ys, dxy, agg, probe, reqs, writes, net>>

----------------------------------------------------------------------------
(* Bounds *)

MaxTicks == 2        \* clock steps explored after start
MaxAttempts == 3     \* largest attempts argument of a direct transport call
MaxObs == 2          \* longest FRED observations array

(* Program constants *)

FreshMs == 2 * 60 * 60 * 1000
FredAttempts == 3
FredDelay == 300
FmpAttempts == 2
FmpDelay == 400
CsvAttempts == 2
CsvDelay == 400
DefaultAttempts == 3
DefaultDelay == 300

(* Clock: one tick is an hour; the process starts two days after the epoch *)
TickMs == 60 * 60 * 1000
DayMs == 24 * TickMs
StartMs == 2 * DayMs
MaxNow == StartMs + MaxTicks * TickMs

----------------------------------------------------------------------------
(* JavaScript values: t is the type tag, v the number (thousandths) and s   *)
(* the text of a string.  A string holding a decimal number has s = "#",    *)
(* one holding a number followed by other characters has s = "#x".          *)

JUndef == [t |-> "undef", v |-> 0, s |-> ""]
JNull == [t |-> "null", v |-> 0, s |-> ""]
JNaN == [t |-> "nan", v |-> 0, s |-> ""]
JInf == [t |-> "inf", v |-> 0, s |-> ""]
JNum(n) == [t |-> "num", v |-> n, s |-> ""]
JStr(str) == [t |-> "str", v |-> 0, s |-> str]
JNumStr(n) == [t |-> "str", v |-> n, s |-> "#"]
JNumJunk(n) == [t |-> "str", v |-> n, s |-> "#x"]

\* Number(x)
NumberOf(x) ==
    CASE x.t = "num" -> x
      [] x.t = "null" -> JNum(0)
      [] x.t = "str" /\ x.s = "#" -> JNum(x.v)
      [] x.t = "str" /\ x.s = "" -> JNum(0)
      [] OTHER -> JNaN

\* parseFloat(x)
ParseFloatOf(x) ==
    CASE x.t = "num" -> x
      [] x.t = "str" /\ x.s \in {"#", "#x"} -> JNum(x.v)
      [] OTHER -> JNaN

\* Number.isFinite(x)
IsFinite(x) == x.t = "num"

\* isNaN(x) / Number.isNaN(x) on a number
IsNaN(x) == x.t = "nan"

\* a ?? b
Coalesce(a, b) == IF a.t \in {"undef", "null"} THEN b ELSE a

\* the integers nearest to n / d (both of them on an exact tie, which the
\* binary representation of the operands decides)
RoundDiv(n, d) ==
    LET nn == IF d < 0 THEN 0 - n ELSE n
        dd == IF d < 0 THEN 0 - d ELSE d
        q == nn \div dd
        r == nn % dd
    IN  IF 2 * r < dd THEN {q}
        ELSE IF 2 * r > dd THEN {q + 1}
        ELSE {q, q + 1}

\* Number(x.toFixed(2)) for x in thousandths
ToFixed2(x) == {JNum(10 * h) : h \in RoundDiv(x, 10)}

\* Number((((latest - prev) / prev) * 100).toFixed(2)), prev # 0
PctChange(latest, prev) ==
    {JNum(10 * h) : h \in RoundDiv(10000 * (latest - prev), prev)}

\* JSON.stringify of a number-valued field: NaN and Infinity are written as
\* null
Stringify(x) == IF x.t \in {"nan", "inf"} THEN JNull ELSE x

----------------------------------------------------------------------------
(* HTTP exchange outcomes *)

BadStatus == "503"

\* fetch() rejected / answered with a non-2xx status / answered 2xx with a
\* body that res.json() cannot parse / answered 2xx with body b
NetReject == [t |-> "reject", body |-> <<>>, text |-> ""]
NetHttp == [t |-> "http", body |-> <<>>, text |-> ""]
NetHttpText == [t |-> "http", body |-> <<>>, text |-> "Bad Request"]
NetBodyFail == [t |-> "bodyfail", body |-> <<>>, text |-> ""]
NetOk(b) == [t |-> "ok", body |-> b, text |-> ""]

NetOutcomes(bodies) ==
    {NetReject, NetHttp, NetBodyFail} \cup {NetOk(b) : b \in bodies}

TextOutcomes(bodies) ==
    {NetReject, NetHttp} \cup {NetOk(b) : b \in bodies}

FetchFailedMsg == "fetch failed"
BodyFailedMsg == "Unexpected token < in JSON at position 0"

----------------------------------------------------------------------------
(* vixIndex.js: fetchJsonWithRetry / fetchTextWithRetry *)

NoErr == "undefined"

NoCall ==
    [kind |-> "none", url |-> "", attempts |-> 0, delay |-> 0, i |-> 0,
     lastErr |-> NoErr, sent |-> 0, slept |-> <<>>, seen |-> <<>>, pc |-> "none",
     out |-> <<>>, err |-> ""]

\* the for loop at its head with counter i: issue a request or leave the loop
CallLoop(c) ==
    IF c.i < c.attempts
    THEN [c EXCEPT !.sent = @ + 1, !.pc = "fetch"]
    ELSE [c EXCEPT !.pc = "thrown",
                   !.err = IF c.lastErr # NoErr THEN c.lastErr
                           ELSE IF c.kind = "json"
                                THEN "fetchJsonWithRetry: unknown error"
                                ELSE "fetchTextWithRetry: unknown error"]

\* fetchWithRetry that makes one attempt more than it was asked for
fetchWithRetry_OneMore(kind, url, attempts, delay) ==
    CallLoop([NoCall EXCEPT !.kind = kind, !.url = url,
                            !.attempts = attempts + 1, !.delay = delay])

fetchWithRetry(kind, url, attempts, delay) ==
    CallLoop([NoCall EXCEPT !.kind = kind, !.url = url,
                            !.attempts = attempts, !.delay = delay])

\* the message of the error caught for outcome o
AttemptError(c, o) ==
    CASE o.t = "reject" -> FetchFailedMsg
      [] o.t = "http" -> "HTTP " \o BadStatus \o " " \o c.url
      [] OTHER -> BodyFailedMsg

\* CallCatch with the guard of the sleep off by one: it waits after the last
\* attempt too
CallCatch_SleepsAfterLast(c, msg) ==
    LET c1 == [c EXCEPT !.lastErr = msg]
    IN  IF c.i < c.attempts
        THEN [c1 EXCEPT !.pc = "sleep",
                        !.slept = Append(@, c.delay * (c.i + 1))]
        ELSE CallLoop([c1 EXCEPT !.i = @ + 1])

\* the catch block: remember the error, sleep unless this was the last attempt
CallCatch(c, msg) ==
    LET c1 == [c EXCEPT !.lastErr = msg]
    IN  IF c.i < c.attempts - 1
        THEN [c1 EXCEPT !.pc = "sleep",
                        !.slept = Append(@, c.delay * (c.i + 1))]
        ELSE CallLoop([c1 EXCEPT !.i = @ + 1])

\* the awaited fetch (and body read) settles with outcome o
\* (seen logs how each request of the call ended)
CallSettle(c, o) ==
    LET c1 == [c EXCEPT !.seen = Append(@, o.t)]
    IN  IF o.t = "ok"
        THEN [c1 EXCEPT !.pc = "returned", !.out = o.body]
        ELSE CallCatch(c1, AttemptError(c1, o))

\* the awaited sleep is over: next iteration
CallWake(c) == CallLoop([c EXCEPT !.i = @ + 1])

----------------------------------------------------------------------------
(* Provider payloads *)

\* the parsed JSON body of a FRED observations request
JsonNull == [t |-> "null", hasObs |-> FALSE, obs |-> <<>>]
FredNoObs == [t |-> "obj", hasObs |-> FALSE, obs |-> <<>>]
FredJson(seq) == [t |-> "obj", hasObs |-> TRUE, obs |-> seq]

Obs(d, x) == [date |-> d, value |-> x]

\* dates are day numbers; the day of StartMs is day 2
PastDates == {1, 2}
YieldDates == {2, 3}
TodayStr == now \div DayMs

SeqsUpTo(S, n) == UNION {[1..k -> S] : k \in 0..n}

\* the bodies with observations arrays of at most n entries
FredSeries(values, dates, n) ==
    {JsonNull, FredNoObs} \cup
    {FredJson(q) : q \in SeqsUpTo({Obs(d, x) : d \in dates, x \in values}, n)}

FredBodies(values, dates) == FredSeries(values, dates, MaxObs)

VixValues == {JStr("."), JNumStr(0), JNumStr(20004), JStr("abc")}

\* CSV text: a sequence of lines, each a sequence of comma separated fields;
\* <<>> is a blank line
Header == <<JStr("DATE"), JStr("OPEN"), JStr("HIGH"), JStr("LOW"), JStr("CLOSE")>>
Row(close) == <<JStr("2024-01-02"), JNumStr(19000), JNumStr(19000), JNumStr(19000), close>>
ShortRow == <<JStr("2024-01-02"), JNumStr(19000)>>
NoDataText == << <<JStr("NO DATA")>> >>

CsvRows == {Row(c) : c \in {JNumStr(0), JNumStr(20004), JStr("abc")}} \cup {ShortRow}

CsvBodies ==
    {<<>>, << <<>> >>, NoDataText, <<Header>>}
    \cup {<<Header, r>> : r \in CsvRows}
    \cup {<<Header, r1, r2>> : r1 \in CsvRows, r2 \in CsvRows}
    \cup {<<Header, r, <<>> >> : r \in CsvRows}

\* an FMP quote object
FmpQuote(price, dayLow, pct) ==
    [price |-> price, previousClose |-> JUndef, dayHigh |-> JUndef,
     dayLow |-> dayLow, changesPercentage |-> pct, changePercent |-> JUndef,
     change |-> JUndef]
EmptyQuote == FmpQuote(JUndef, JUndef, JUndef)

FmpArray(items) == [t |-> "array", items |-> items]
FmpNotArray == [t |-> "obj", items |-> <<>>]

FmpQuotes ==
    {FmpQuote(JNum(18504), JUndef, JNum(1236)),
     FmpQuote(JNum(18504), JUndef, JUndef),
     FmpQuote(JUndef, JNum(18504), JUndef),
     FmpQuote(JUndef, JNull, JUndef),
     FmpQuote(JStr("abc"), JUndef, JUndef),
     EmptyQuote}

FmpBodies == {FmpNotArray, FmpArray(<<>>)} \cup {FmpArray(<<q>>) : q \in FmpQuotes}

----------------------------------------------------------------------------
(* vixIndex.js: the four adapters, from the body the transport returned *)

AdOk(p, c, src) ==
    [ok |-> TRUE, price |-> p, changePercent |-> c, source |-> src, err |-> ""]
AdFail(msg) ==
    [ok |-> FALSE, price |-> JNull, changePercent |-> JNull, source |-> "", err |-> msg]

SrcFRED == "FRED VIXCLS (daily close)"
SrcFMP == "FMP ^VIX"
SrcCBOE == "CBOE CSV"
SrcStooq == "Stooq CSV"

UrlFRED == "https://api.stlouisfed.org/fred/series/observations?series_id=VIXCLS"
UrlFMP == "https://financialmodelingprep.com/api/v3/quote/%5EVIX"
UrlCBOE == "https://cdn.cboe.com/api/global/us_indices/daily_prices/VIX_History.csv"
UrlStooq == "https://stooq.com/q/d/l/?s=%5Evix&i=d"

\* fromFRED reading a value that is not a number as 0: Number(o.value) || 0
\* in place of the two filters
fromFRED_SentinelAsZero(json) ==
    LET raw == IF json.t = "obj" /\ json.hasObs THEN json.obs ELSE <<>>
        obs == [k \in 1..Len(raw) |->
                  [date |-> raw[k].date,
                   val |-> IF IsFinite(NumberOf(raw[k].value))
                           THEN NumberOf(raw[k].value) ELSE JNum(0)]]
    IN  IF Len(obs) < 1 THEN {AdFail("FRED VIXCLS: no numeric observations")}
        ELSE LET latest == obs[1]
                 hasPrev == Len(obs) > 1
                 changes == IF hasPrev /\ obs[2].val.v # 0
                            THEN PctChange(latest.val.v, obs[2].val.v)
                            ELSE {JNull}
             IN  {AdOk(p, c, SrcFRED) : p \in ToFixed2(latest.val.v), c \in changes}

\* fromFRED, after fetchJsonWithRetry
fromFRED(json) ==
    LET raw == IF json.t = "obj" /\ json.hasObs THEN json.obs ELSE <<>>
        noDot == SelectSeq(raw, LAMBDA o : o.value # JStr("."))
        mapped == [k \in 1..Len(noDot) |->
                     [date |-> noDot[k].date, val |-> NumberOf(noDot[k].value)]]
        obs == SelectSeq(mapped, LAMBDA o : IsFinite(o.val))
    IN  IF Len(obs) < 1 THEN {AdFail("FRED VIXCLS: no numeric observations")}
        ELSE LET latest == obs[1]
                 hasPrev == Len(obs) > 1
                 changes == IF hasPrev /\ obs[2].val.v # 0
                            THEN PctChange(latest.val.v, obs[2].val.v)
                            ELSE {JNull}
             IN  {AdOk(p, c, SrcFRED) : p \in ToFixed2(latest.val.v), c \in changes}

\* fromFMP, after fetchJsonWithRetry
fromFMP(arr) ==
    IF arr.t # "array" \/ Len(arr.items) = 0 THEN {AdFail("FMP: empty response")}
    ELSE LET q == arr.items[1]
             price == NumberOf(Coalesce(q.price, Coalesce(q.previousClose,
                                Coalesce(q.dayHigh, q.dayLow))))
             changePercent == NumberOf(Coalesce(q.changesPercentage,
                                Coalesce(q.changePercent, q.change)))
         IN  IF ~IsFinite(price) THEN {AdFail("FMP: no usable price")}
             ELSE LET pcts == IF IsFinite(changePercent)
                              THEN ToFixed2(changePercent.v) ELSE {JNull}
                  IN  {AdOk(p, c, SrcFMP) : p \in ToFixed2(price.v), c \in pcts}

\* csv.trim().split('\n').filter(Boolean)
CsvLines(csv) == SelectSeq(csv, LAMBDA l : l # <<>>)

\* row[4]
Field5(row) == IF Len(row) >= 5 THEN row[5] ELSE JUndef

\* fromCBOE, after fetchTextWithRetry
fromCBOE(csv) ==
    LET lines == CsvLines(csv)
        n == Len(lines)
    IN  IF n < 2 THEN {AdFail("CBOE: no data rows")}
        ELSE IF Len(lines[n]) < 5 THEN {AdFail("CBOE: malformed row")}
        ELSE LET close == NumberOf(lines[n][5])
             IN  IF ~IsFinite(close) THEN {AdFail("CBOE: bad close")}
                 ELSE LET pClose == NumberOf(Field5(lines[n - 1]))
                          changes ==
                              IF n >= 3 /\ Len(lines[n - 1]) >= 5
                                 /\ IsFinite(pClose) /\ pClose.v # 0
                              THEN PctChange(close.v, pClose.v)
                              ELSE {JNull}
                      IN  {AdOk(p, c, SrcCBOE) : p \in ToFixed2(close.v), c \in changes}

\* fromStooq without the pClose !== 0 test
fromStooq_NoZeroGuard(csv) ==
    LET lines == CsvLines(csv)
        n == Len(lines)
    IN  IF n = 0 \/ csv = NoDataText THEN {AdFail("Stooq: NO DATA")}
        ELSE IF n < 2 THEN {AdFail("Stooq: no rows")}
        ELSE IF Len(lines[n]) < 5 THEN {AdFail("Stooq: malformed row")}
        ELSE LET close == NumberOf(lines[n][5])
             IN  IF ~IsFinite(close) THEN {AdFail("Stooq: bad close")}
                 ELSE LET pClose == NumberOf(Field5(lines[n - 1]))
                          changes ==
                              IF n >= 3 /\ IsFinite(pClose)
                              THEN IF pClose.v # 0 THEN PctChange(close.v, pClose.v)
                                   ELSE IF close.v = 0 THEN {JNaN} ELSE {JInf}
                              ELSE {JNull}
                      IN  {AdOk(p, c, SrcStooq) : p \in ToFixed2(close.v), c \in changes}

\* fromStooq, after fetchTextWithRetry
fromStooq(csv) ==
    LET lines == CsvLines(csv)
        n == Len(lines)
    IN  IF n = 0 \/ csv = NoDataText THEN {AdFail("Stooq: NO DATA")}
        ELSE IF n < 2 THEN {AdFail("Stooq: no rows")}
        ELSE IF Len(lines[n]) < 5 THEN {AdFail("Stooq: malformed row")}
        ELSE LET close == NumberOf(lines[n][5])
             IN  IF ~IsFinite(close) THEN {AdFail("Stooq: bad close")}
                 ELSE LET pClose == NumberOf(Field5(lines[n - 1]))
                          changes ==
                              IF n >= 3 /\ IsFinite(pClose) /\ pClose.v # 0
                              THEN PctChange(close.v, pClose.v)
                              ELSE {JNull}
                      IN  {AdOk(p, c, SrcStooq) : p \in ToFixed2(close.v), c \in changes}

----------------------------------------------------------------------------
(* vixIndex.js: handler *)

NoResp == [statusCode |-> 0, headers |-> <<>>, body |-> <<>>]

VixHeaders ==
    ("Content-Type" :> "application/json")
    @@ ("Access-Control-Allow-Origin" :> "*")
    @@ ("Cache-Control" :> "no-store, must-revalidate")

VixAdapters == <<"FRED", "FMP", "CBOE", "Stooq">>

EmptyCache ==
    [price |-> JNull, changePercent |-> JNull, source |-> "", timestamp |-> 0]

\* invoked logs the adapters called, won is the adapter that returned r
NoResult == AdFail("")

IdleVix ==
    [pc |-> "idle", adapter |-> 0, tried |-> <<>>, invoked |-> <<>>,
     won |-> 0, r |-> NoResult, resp |-> NoResp]

VixParse(k, body) ==
    CASE k = 1 -> fromFRED(body)
      [] k = 2 -> fromFMP(body)
      [] k = 3 -> fromCBOE(body)
      [] OTHER -> fromStooq(body)

\* the answers each provider may give
VixAnswers(k) ==
    CASE k = 1 -> NetOutcomes(FredBodies(VixValues, PastDates))
      [] k = 2 -> NetOutcomes(FmpBodies)
      [] OTHER -> TextOutcomes(CsvBodies)

\* what the handler keeps of an answer: how the request ended and what the
\* adapter makes of the body
VixAnswerKey(k, o) ==
    IF o.t = "ok" THEN [t |-> "ok", results |-> VixParse(k, o.body)]
    ELSE [t |-> o.t, results |-> {}]

\* one element of S for every value key takes on S
OnePer(S, key(_)) == {CHOOSE o \in S : key(o) = v : v \in {key(o) : o \in S}}

\* the answers explored: one of VixAnswers(k) for each thing the handler can
\* keep of it
VixOutcomeSets ==
    [k \in 1..Len(VixAdapters) |->
        OnePer(VixAnswers(k), LAMBDA o : VixAnswerKey(k, o))]

VixOutcomes(k) == VixOutcomeSets[k]

\* CacheFresh without the age test
CacheFresh_AnyAge(c, t) == c.price.t \notin {"null", "undef"}

\* 5) Recent cache (<= 2h)
CacheFresh(c, t) ==
    c.price.t \notin {"null", "undef"} /\ t - c.timestamp < FreshMs

\* VixCachedResponse without the provenance suffix
VixCachedResponse_NoSuffix(c, tried) ==
    [statusCode |-> 200, headers |-> VixHeaders,
     body |-> ("price" :> Stringify(c.price))
              @@ ("changePercent" :> Stringify(c.changePercent))
              @@ ("source" :> c.source)
              @@ ("timestamp" :> now)
              @@ ("_debug" :> [tried |-> tried])]

VixCachedResponse(c, tried) ==
    [statusCode |-> 200, headers |-> VixHeaders,
     body |-> ("price" :> Stringify(c.price))
              @@ ("changePercent" :> Stringify(c.changePercent))
              @@ ("source" :> c.source \o " (cached)")
              @@ ("timestamp" :> now)
              @@ ("_debug" :> [tried |-> tried])]

VixFailedResponse(tried) ==
    [statusCode |-> 500, headers |-> VixHeaders,
     body |-> ("error" :> "All sources failed and no fresh cache")
              @@ ("_debug" :> [tried |-> tried])
              @@ ("timestamp" :> now)]

VixLiveResponse(r) ==
    [statusCode |-> 200, headers |-> VixHeaders,
     body |-> ("price" :> Stringify(r.price))
              @@ ("changePercent" :> Stringify(r.changePercent))
              @@ ("source" :> r.source)
              @@ ("timestamp" :> now)]

\* VixFinish that drops an entry it finds stale
VixFinish_Evict(s) ==
    IF CacheFresh(s.cached, now)
    THEN [s EXCEPT !.call = NoCall,
                   !.vix.pc = "done",
                   !.vix.resp = VixCachedResponse(s.cached, s.vix.tried)]
    ELSE [s EXCEPT !.call = NoCall,
                   !.vix.pc = "done",
                   !.vix.resp = VixFailedResponse(s.vix.tried),
                   !.cached = EmptyCache]

\* VixFinish that stores what it serves from the cache back into the cache
VixFinish_Recache(s) ==
    IF CacheFresh(s.cached, now)
    THEN [s EXCEPT !.call = NoCall,
                   !.vix.pc = "done",
                   !.vix.resp = VixCachedResponse(s.cached, s.vix.tried),
                   !.cached = [s.cached EXCEPT !.source = @ \o " (cached)",
                                               !.timestamp = now]]
    ELSE [s EXCEPT !.call = NoCall,
                   !.vix.pc = "done",
                   !.vix.resp = VixFailedResponse(s.vix.tried)]

\* every adapter failed: serve the cache or fail
VixFinish(s) ==
    [s EXCEPT !.call = NoCall,
              !.vix.pc = "done",
              !.vix.resp = IF CacheFresh(s.cached, now)
                           THEN VixCachedResponse(s.cached, s.vix.tried)
                           ELSE VixFailedResponse(s.vix.tried)]

RECURSIVE VixBegin(_, _)
RECURSIVE VixAdapterFailed(_, _)

\* VixAdapterFailed giving the failed adapter one more try before it moves on
VixAdapterFailed_RetryOnce(s, msg) ==
    LET k == s.vix.adapter
        s1 == [s EXCEPT !.vix.tried =
                  Append(@, [src |-> VixAdapters[k], ok |-> FALSE, err |-> msg])]
        calls == Len(SelectSeq(s.vix.invoked, LAMBDA a : a = VixAdapters[k]))
    IN  IF calls < 2 THEN VixBegin(s1, k)
        ELSE IF k < Len(VixAdapters) THEN VixBegin(s1, k + 1) ELSE VixFinish(s1)

\* catch (e) { tried.push({ src, ok: false, err: e.message }) } and fall
\* through to the next try block
VixAdapterFailed(s, msg) ==
    LET k == s.vix.adapter
        s1 == [s EXCEPT !.vix.tried =
                  Append(@, [src |-> VixAdapters[k], ok |-> FALSE, err |-> msg])]
    IN  IF k < Len(VixAdapters) THEN VixBegin(s1, k + 1) ELSE VixFinish(s1)

\* the try block of adapter k, up to its first await
VixBegin(s, k) ==
    LET s1 == [s EXCEPT !.vix.pc = "await", !.vix.adapter = k,
                        !.vix.invoked = Append(@, VixAdapters[k])]
    IN  CASE k = 1 ->
               IF ~env.FRED_KEY THEN VixAdapterFailed(s1, "FRED_KEY missing")
               ELSE [s1 EXCEPT !.call =
                       fetchWithRetry("json", UrlFRED, FredAttempts, FredDelay)]
          [] k = 2 ->
               IF ~env.FMP_KEY THEN VixAdapterFailed(s1, "FMP_KEY missing")
               ELSE [s1 EXCEPT !.call =
                       fetchWithRetry("json", UrlFMP, FmpAttempts, FmpDelay)]
          [] k = 3 ->
               [s1 EXCEPT !.call =
                   fetchWithRetry("text", UrlCBOE, CsvAttempts, CsvDelay)]
          [] OTHER ->
               [s1 EXCEPT !.call =
                   fetchWithRetry("text", UrlStooq, CsvAttempts, CsvDelay)]

\* VixAdapterSucceeded without the return: the chain goes on after a success
VixAdapterSucceeded_NoReturn(s, r) ==
    LET k == s.vix.adapter
        s1 == [s EXCEPT !.vix.tried = Append(@, [src |-> VixAdapters[k], ok |-> TRUE]),
                        !.cached = [price |-> r.price,
                                    changePercent |-> r.changePercent,
                                    source |-> r.source, timestamp |-> now],
                        !.vix.won = k,
                        !.vix.r = r]
    IN  IF k < Len(VixAdapters) THEN VixBegin(s1, k + 1) ELSE VixFinish(s1)

\* VixAdapterSucceeded that overwrites the price and the time of the entry it
\* finds and keeps the rest
VixAdapterSucceeded_Merge(s, r) ==
    LET k == s.vix.adapter
    IN  [s EXCEPT !.vix.tried = Append(@, [src |-> VixAdapters[k], ok |-> TRUE]),
                  !.cached = [s.cached EXCEPT !.price = r.price, !.timestamp = now],
                  !.call = NoCall,
                  !.vix.won = k,
                  !.vix.r = r,
                  !.vix.pc = "done",
                  !.vix.resp = VixLiveResponse(r)]

\* adapter k returned r: remember it, answer, return
VixAdapterSucceeded(s, r) ==
    LET k == s.vix.adapter
    IN  [s EXCEPT !.vix.tried = Append(@, [src |-> VixAdapters[k], ok |-> TRUE]),
                  !.cached = [price |-> r.price, changePercent |-> r.changePercent,
                              source |-> r.source, timestamp |-> now],
                  !.call = NoCall,
                  !.vix.won = k,
                  !.vix.r = r,
                  !.vix.pc = "done",
                  !.vix.resp = VixLiveResponse(r)]

VixState == [vix |-> vix, call |-> call, cached |-> cached]

VixSet(s) ==
    /\ vix' = s.vix
    /\ call' = s.call
    /\ cached' = s.cached

\* exports.handler is invoked
VixInvoke ==
    /\ fn = "vix"
    /\ vix.pc \in {"idle", "done"}
    /\ VixSet(VixBegin([VixState EXCEPT !.vix = IdleVix, !.call = NoCall], 1))
    /\ UNCHANGED <<fn, env, now, gold, ys, dxy, agg, probe, reqs, writes, net>>

\* the request of the running adapter settles
VixFetchSettles ==
    /\ fn = "vix"
    /\ vix.pc = "await"
    /\ call.pc = "fetch"
    /\ \E o \in VixOutcomes(vix.adapter) :
         LET c == CallSettle(call, o)
             s == [VixState EXCEPT !.call = c]
         IN  CASE c.pc = "sleep" -> VixSet(s)
               [] c.pc = "thrown" -> VixSet(VixAdapterFailed(s, c.err))
               [] OTHER ->
                    \E r \in VixParse(vix.adapter, c.out) :
                      IF r.ok THEN VixSet(VixAdapterSucceeded(s, r))
                      ELSE VixSet(VixAdapterFailed(s, r.err))
    /\ UNCHANGED <<fn, env, now, gold, ys, dxy, agg, probe, reqs, writes, net>>

\* the backoff sleep of the running adapter is over
VixSleepDone ==
    /\ fn = "vix"
    /\ vix.pc = "await"
    /\ call.pc = "sleep"
    /\ call' = CallWake(call)
    /\ UNCHANGED <<fn, env, now, cached, vix, gold, ys, dxy, agg, probe, reqs, writes, net>>

----------------------------------------------------------------------------
(* gold.js *)

PlainHeaders ==
    ("Content-Type" :> "application/json")
    @@ ("Access-Control-Allow-Origin" :> "*")

SrcTdGold == "TwelveData XAU/USD"
SrcFmpGold == "FMP GC=F"
GoldPM == "GOLDPMGBD228NLBM"
GoldAM == "GOLDAMGBD228NLBM"

NullStatusMsg == "Cannot read properties of null (reading 'status')"
NullObsMsg == "Cannot read properties of null (reading 'observations')"

\* a TwelveData quote body
TdNull == [t |-> "null", status |-> "", message |-> JUndef, close |-> JUndef,
           percent_change |-> JUndef]
TdQuote(close, pc) ==
    [t |-> "obj", status |-> "ok", message |-> JUndef, close |-> close,
     percent_change |-> pc]
TdError(msg) ==
    [t |-> "obj", status |-> "error", message |-> msg, close |-> JUndef,
     percent_change |-> JUndef]

TdBodies ==
    {TdNull, TdError(JUndef), TdError(JStr("API credits exhausted"))}
    \cup {TdQuote(c, p) : c \in {JNumStr(20004), JUndef, JStr("abc")},
                          p \in {JNumStr(1236), JUndef}}

GoldValues == {JStr("."), JNumStr(0), JNumStr(20004), JStr("abc"), JNull}

\* tdGold, from the outcome of its fetch
tdGold(o) ==
    CASE o.t = "reject" -> {AdFail(FetchFailedMsg)}
      [] o.t = "http" -> {AdFail("TwelveData HTTP " \o BadStatus)}
      [] o.t = "bodyfail" -> {AdFail(BodyFailedMsg)}
      [] OTHER ->
           LET json == o.body
           IN  IF json.t = "null" THEN {AdFail(NullStatusMsg)}
               ELSE IF json.status = "error"
               THEN {AdFail(IF json.message.t = "str" /\ json.message.s # ""
                            THEN json.message.s ELSE "TwelveData error")}
               ELSE LET price == NumberOf(json.close)
                        pct == NumberOf(json.percent_change)
                    IN  IF ~IsFinite(price) THEN {AdFail("TwelveData: bad price")}
                        ELSE {AdOk(price, IF IsFinite(pct) THEN pct ELSE JNull,
                                   SrcTdGold)}

\* fmpGold, from the outcome of its fetch
fmpGold(o) ==
    CASE o.t = "reject" -> {AdFail(FetchFailedMsg)}
      [] o.t = "http" -> {AdFail("FMP HTTP " \o BadStatus)}
      [] o.t = "bodyfail" -> {AdFail(BodyFailedMsg)}
      [] OTHER ->
           LET json == o.body
           IN  IF json.t # "array" \/ Len(json.items) = 0
               THEN {AdFail("FMP: bad payload")}
               ELSE LET price == NumberOf(json.items[1].price)
                        pct == NumberOf(json.items[1].changesPercentage)
                    IN  IF ~IsFinite(price) THEN {AdFail("FMP: bad price")}
                        ELSE {AdOk(price, IF IsFinite(pct) THEN pct ELSE JNull,
                                   SrcFmpGold)}

\* fredLatestPair taking the first two observations, as the handlers that
\* ask for sort_order=desc do
fredLatestPair_TakesFirst(seriesId, o) ==
    CASE o.t = "reject" -> {AdFail(FetchFailedMsg)}
      [] o.t = "http" ->
           {AdFail("FRED HTTP " \o BadStatus \o " (" \o seriesId \o ")"
                   \o (IF o.text # "" THEN " - " \o o.text ELSE ""))}
      [] o.t = "bodyfail" -> {AdFail(BodyFailedMsg)}
      [] OTHER ->
           LET json == o.body
               obs == IF json.hasObs THEN json.obs ELSE <<>>
               kept == SelectSeq(obs, LAMBDA x :
                          /\ x.value # JStr(".")
                          /\ x.value.t \notin {"null", "undef"}
                          /\ ~IsNaN(NumberOf(x.value)))
               clean == [k \in 1..Len(kept) |->
                           [date |-> kept[k].date, value |-> NumberOf(kept[k].value)]]
               n == Len(clean)
           IN  IF json.t = "null" THEN {AdFail(NullObsMsg)}
               ELSE IF n = 0
               THEN {AdFail("FRED " \o seriesId \o ": no observations")}
               ELSE LET price == clean[1].value
                        pcts == IF n >= 2 /\ IsFinite(clean[2].value)
                                   /\ clean[2].value.v # 0
                                THEN PctChange(price.v, clean[2].value.v)
                                ELSE {JNull}
                    IN  {AdOk(price, c, "FRED " \o seriesId) : c \in pcts}

\* gold.js fredLatestPair, from the outcome of its fetch
fredLatestPair(seriesId, o) ==
    CASE o.t = "reject" -> {AdFail(FetchFailedMsg)}
      [] o.t = "http" ->
           {AdFail("FRED HTTP " \o BadStatus \o " (" \o seriesId \o ")"
                   \o (IF o.text # "" THEN " - " \o o.text ELSE ""))}
      [] o.t = "bodyfail" -> {AdFail(BodyFailedMsg)}
      [] OTHER ->
           LET json == o.body
               obs == IF json.hasObs THEN json.obs ELSE <<>>
               kept == SelectSeq(obs, LAMBDA x :
                          /\ x.value # JStr(".")
                          /\ x.value.t \notin {"null", "undef"}
                          /\ ~IsNaN(NumberOf(x.value)))
               clean == [k \in 1..Len(kept) |->
                           [date |-> kept[k].date, value |-> NumberOf(kept[k].value)]]
               n == Len(clean)
           IN  IF json.t = "null" THEN {AdFail(NullObsMsg)}
               ELSE IF n = 0
               THEN {AdFail("FRED " \o seriesId \o ": no observations")}
               ELSE LET price == clean[n].value
                        pcts == IF n >= 2 /\ IsFinite(clean[n - 1].value)
                                   /\ clean[n - 1].value.v # 0
                                THEN PctChange(price.v, clean[n - 1].value.v)
                                ELSE {JNull}
                    IN  {AdOk(price, c, "FRED " \o seriesId) : c \in pcts}

GoldAttempts == <<"tdGold", "fmpGold", "fredPM", "fredAM">>

IdleGold ==
    [pc |-> "idle", adapter |-> 0, tried |-> <<>>, invoked |-> <<>>,
     won |-> 0, r |-> NoResult, resp |-> NoResp]

GoldOutcomes(k) ==
    CASE k = 1 -> NetOutcomes(TdBodies)
      [] k = 2 -> NetOutcomes(FmpBodies)
      [] OTHER -> NetOutcomes(FredBodies(GoldValues, PastDates)) \cup {NetHttpText}

GoldRun(k, o) ==
    CASE k = 1 -> tdGold(o)
      [] k = 2 -> fmpGold(o)
      [] k = 3 -> fredLatestPair(GoldPM, o)
      [] OTHER -> fredLatestPair(GoldAM, o)

\* the key adapter k needs is set
GoldKey(k) ==
    CASE k = 1 -> env.TWELVE_KEY
      [] k = 2 -> env.FMP_KEY
      [] OTHER -> env.FRED_KEY

GoldKeyMsg(k) ==
    CASE k = 1 -> "TWELVE_KEY missing"
      [] k = 2 -> "FMP_KEY missing"
      [] OTHER -> "FRED_KEY missing"

\* GoldFailedResponse answering 500 as the other endpoints do
GoldFailedResponse_500(tried) ==
    [statusCode |-> 500, headers |-> PlainHeaders,
     body |-> ("error" :> "All gold sources failed")
              @@ ("_debug" :> [tried |-> tried])
              @@ ("timestamp" :> now)]

\* the return after the loop
GoldFailedResponse(tried) ==
    [statusCode |-> 200, headers |-> PlainHeaders,
     body |-> ("error" :> "All gold sources failed")
              @@ ("_debug" :> [tried |-> tried])
              @@ ("timestamp" :> now)]

\* the return inside the loop
GoldLiveResponse(r) ==
    [statusCode |-> 200, headers |-> PlainHeaders,
     body |-> ("price" :> Stringify(r.price))
              @@ ("pct" :> Stringify(r.changePercent))
              @@ ("source" :> r.source)
              @@ ("timestamp" :> now)]

RECURSIVE GoldBegin(_, _)
RECURSIVE GoldAdapterFailed(_, _)

\* catch (e) { tried.push(e.message || String(e)) } and the next iteration
GoldAdapterFailed(g, msg) ==
    LET g1 == [g EXCEPT !.tried = Append(@, msg)]
    IN  IF g.adapter < Len(GoldAttempts) THEN GoldBegin(g1, g.adapter + 1)
        ELSE [g1 EXCEPT !.pc = "done", !.resp = GoldFailedResponse(g1.tried)]

\* one iteration of the loop over attempts, up to the adapter's fetch
GoldBegin(g, k) ==
    LET g1 == [g EXCEPT !.pc = "await", !.adapter = k,
                        !.invoked = Append(@, GoldAttempts[k])]
    IN  IF ~GoldKey(k) THEN GoldAdapterFailed(g1, GoldKeyMsg(k)) ELSE g1

GoldAdapterSucceeded(g, r) ==
    [g EXCEPT !.won = g.adapter, !.r = r,
              !.pc = "done", !.resp = GoldLiveResponse(r)]

GoldInvoke ==
    /\ fn = "gold"
    /\ gold.pc \in {"idle", "done"}
    /\ gold' = GoldBegin(IdleGold, 1)
    /\ UNCHANGED <<fn, env, now, cached, vix, call, ys, dxy, agg, probe, reqs, writes, net>>

GoldFetchSettles ==
    /\ fn = "gold"
    /\ gold.pc = "await"
    /\ \E o \in GoldOutcomes(gold.adapter) :
         \E r \in GoldRun(gold.adapter, o) :
           gold' = IF r.ok THEN GoldAdapterSucceeded(gold, r)
                   ELSE GoldAdapterFailed(gold, r.err)
    /\ UNCHANGED <<fn, env, now, cached, vix, call, ys, dxy, agg, probe, reqs, writes, net>>

----------------------------------------------------------------------------
(* yieldSpread.js *)

YsHeaders ==
    ("Cache-Control" :> "no-store, must-revalidate")
    @@ ("Content-Type" :> "application/json")

YieldValues ==
    {JStr("."), JNumStr(4200), JNumStr(4500), JNumStr(4203), JStr("abc")}

Series == {"DGS10", "DGS2"}

Pending == [st |-> "pending", val |-> JUndef, err |-> ""]
Fulfilled(x) == [st |-> "ok", val |-> x, err |-> ""]
Rejected(msg) == [st |-> "failed", val |-> JUndef, err |-> msg]

\* o.value !== '.' && o.date <= todayStr
YsUsable(o) == o.value # JStr(".") /\ o.date <= TodayStr

RECURSIVE FindFirst(_, _)
\* index of the first usable observation from position k on, 0 if none
FindFirst(seq, k) ==
    IF k > Len(seq) THEN 0
    ELSE IF YsUsable(seq[k]) THEN k
    ELSE FindFirst(seq, k + 1)

fetchLatestObservation(series_id, o) ==
    CASE o.t = "reject" -> Rejected(FetchFailedMsg)
      [] o.t = "http" ->
           Rejected("FRED HTTP " \o BadStatus \o " for series " \o series_id)
      [] o.t = "bodyfail" -> Rejected(BodyFailedMsg)
      [] OTHER ->
           LET json == o.body
               k == FindFirst(json.obs, 1)
           IN  IF json.t = "null" THEN Rejected(NullObsMsg)
               ELSE IF ~json.hasObs
               THEN Rejected("No observations array for " \o series_id)
               ELSE IF k = 0
               THEN Rejected("No valid recent observation for " \o series_id)
               ELSE LET val == ParseFloatOf(json.obs[k].value)
                    IN  IF IsNaN(val)
                        THEN Rejected("Parsed NaN for " \o series_id \o " observation")
                        ELSE Fulfilled(val)

IdleYs ==
    [pc |-> "idle", series |-> [s \in Series |-> Pending], err |-> "",
     resp |-> NoResp]

\* YsResponse with the inversion test spread <= 0
YsResponse_FlatInverted(y10, y2, spread) ==
    [statusCode |-> 200, headers |-> YsHeaders,
     body |-> ("spread" :> Stringify(spread))
              @@ ("inverted" :> (y10.v - y2.v <= 0))
              @@ ("source" :> "FRED")
              @@ ("timestamp" :> now)
              @@ ("components" :> [y10 |-> y10, y2 |-> y2])]

\* the return of the try block
YsResponse(y10, y2, spread) ==
    [statusCode |-> 200, headers |-> YsHeaders,
     body |-> ("spread" :> Stringify(spread))
              @@ ("inverted" :> (y10.v - y2.v < 0))
              @@ ("source" :> "FRED")
              @@ ("timestamp" :> now)
              @@ ("components" :> [y10 |-> y10, y2 |-> y2])]

\* YsFallbackResponse surfacing the failure as the dxy handler does
YsFallbackResponse_500 ==
    [statusCode |-> 500, headers |-> YsHeaders,
     body |-> ("error" :> "yieldSpread error") @@ ("timestamp" :> now)]

\* the return of the catch block
YsFallbackResponse ==
    [statusCode |-> 200, headers |-> YsHeaders,
     body |-> ("spread" :> JNum(0))
              @@ ("inverted" :> FALSE)
              @@ ("source" :> "FRED")
              @@ ("timestamp" :> now)]

YsInvoke ==
    /\ fn = "yieldSpread"
    /\ ys.pc \in {"idle", "done"}
    /\ ys' = [IdleYs EXCEPT !.pc = "await"]
    /\ UNCHANGED <<fn, env, now, cached, vix, call, gold, dxy, agg, probe, reqs, writes, net>>

\* the handler, resumed when Promise.all settles: it rejects with the first
\* rejection and fulfils when both series are there
YsResume(y) ==
    LET failed == {s \in Series : y.series[s].st = "failed"}
        y10 == y.series["DGS10"].val
        y2 == y.series["DGS2"].val
    IN  IF y.pc # "await" THEN {y}
        ELSE IF failed # {}
        THEN {[y EXCEPT !.pc = "done", !.resp = YsFallbackResponse,
                        !.err = y.series[s].err] : s \in failed}
        ELSE IF \A s \in Series : y.series[s].st = "ok"
        THEN {[y EXCEPT !.pc = "done", !.resp = YsResponse(y10, y2, sp)] :
                 sp \in ToFixed2(y10.v - y2.v)}
        ELSE {y}

YsSeriesSettles ==
    /\ fn = "yieldSpread"
    /\ ys.pc \in {"await", "done"}
    /\ \E s \in Series :
         /\ ys.series[s].st = "pending"
         /\ \E o \in NetOutcomes(FredBodies(YieldValues, YieldDates)) :
              ys' \in YsResume([ys EXCEPT !.series[s] = fetchLatestObservation(s, o)])
    /\ UNCHANGED <<fn, env, now, cached, vix, call, gold, dxy, agg, probe, reqs, writes, net>>

----------------------------------------------------------------------------
(* dxy.js *)

DxyValues == {JStr("."), JNumStr(0), JNumStr(120004), JStr("abc")}

IdleDxy == [pc |-> "idle", err |-> "", resp |-> NoResp]

\* DxyError degrading to 200 as the gold handler does
DxyError_200(msg) ==
    [pc |-> "done", err |-> msg,
     resp |-> [statusCode |-> 200, headers |-> PlainHeaders,
               body |-> ("error" :> msg) @@ ("timestamp" :> now)]]

\* the return of the catch block
DxyError(msg) ==
    [pc |-> "done", err |-> msg,
     resp |-> [statusCode |-> 500, headers |-> PlainHeaders,
               body |-> ("error" :> msg) @@ ("timestamp" :> now)]]

\* ((latest - prior) / prior) * 100, then Number(x.toFixed(2))
DxyChange(latest, prior) ==
    IF prior # 0 THEN PctChange(latest, prior)
    ELSE IF latest = 0 THEN {JNaN}
    ELSE {JInf}

\* the return of the try block
DxyOk(price, changePercent) ==
    [pc |-> "done", err |-> "",
     resp |-> [statusCode |-> 200, headers |-> PlainHeaders,
               body |-> ("price" :> Stringify(price))
                        @@ ("changePercent" :> Stringify(changePercent))
                        @@ ("source" :> "FRED DTWEXBGS")
                        @@ ("timestamp" :> now)]]

\* the handler after its fetch settled with outcome o
DxyRespond(o) ==
    CASE o.t = "reject" -> {DxyError(FetchFailedMsg)}
      [] o.t = "http" -> {DxyError("FRED HTTP " \o BadStatus)}
      [] o.t = "bodyfail" -> {DxyError(BodyFailedMsg)}
      [] OTHER ->
           LET json == o.body
               raw == IF json.hasObs THEN json.obs ELSE <<>>
               obs == SelectSeq(raw, LAMBDA x : x.value # JStr("."))
           IN  IF json.t = "null" THEN {DxyError(NullObsMsg)}
               ELSE IF Len(obs) < 2 THEN {DxyError("Not enough DXY observations")}
               ELSE LET latest == ParseFloatOf(obs[1].value)
                        prior == ParseFloatOf(obs[2].value)
                    IN  IF ~IsFinite(latest) \/ ~IsFinite(prior)
                        THEN {DxyError("DXY NaN")}
                        ELSE {DxyOk(p, c) : p \in ToFixed2(latest.v),
                                            c \in DxyChange(latest.v, prior.v)}

DxyInvoke ==
    /\ fn = "dxy"
    /\ dxy.pc \in {"idle", "done"}
    /\ dxy' = IF ~env.FRED_KEY THEN DxyError("FRED_KEY missing")
              ELSE [IdleDxy EXCEPT !.pc = "await"]
    /\ UNCHANGED <<fn, env, now, cached, vix, call, gold, ys, agg, probe, reqs, writes, net>>

DxyFetchSettles ==
    /\ fn = "dxy"
    /\ dxy.pc = "await"
    /\ \E o \in NetOutcomes(FredBodies(DxyValues, PastDates)) :
         dxy' \in DxyRespond(o)
    /\ UNCHANGED <<fn, env, now, cached, vix, call, gold, ys, agg, probe, reqs, writes, net>>

----------------------------------------------------------------------------
(* a direct call of fetchJsonWithRetry / fetchTextWithRetry *)

Delays == {0, FredDelay, FmpDelay}
PlainBodies == {JsonNull}

RetryInvoke ==
    /\ fn = "retry"
    /\ call.pc \in {"none", "returned", "thrown"}
    /\ \/ \E kind \in {"json", "text"}, n \in 0..MaxAttempts, d \in Delays :
            call' = fetchWithRetry(kind, UrlFRED, n, d)
       \/ \E kind \in {"json", "text"} :
            call' = fetchWithRetry(kind, UrlFRED, DefaultAttempts, DefaultDelay)
    /\ UNCHANGED <<fn, env, now, cached, vix, gold, ys, dxy, agg, probe, reqs, writes, net>>

RetryFetchSettles ==
    /\ fn = "retry"
    /\ call.pc = "fetch"
    /\ \E o \in IF call.kind = "json" THEN NetOutcomes(PlainBodies)
                 ELSE TextOutcomes(PlainBodies) :
         call' = CallSettle(call, o)
    /\ UNCHANGED <<fn, env, now, cached, vix, gold, ys, dxy, agg, probe, reqs, writes, net>>

RetrySleepDone ==
    /\ fn = "retry"
    /\ call.pc = "sleep"
    /\ call' = CallWake(call)
    /\ UNCHANGED <<fn, env, now, cached, vix, gold, ys, dxy, agg, probe, reqs, writes, net>>

----------------------------------------------------------------------------
(* fetchAllData.js: the aggregator *)

HostTwelve == "api.twelvedata.com"
HostFMP == "financialmodelingprep.com"
HostFRED == "api.stlouisfed.org"
PathYieldSpread == "/.netlify/functions/yieldSpread"
PathBuffett == "/.netlify/functions/buffett"

\* fetchTwelve, from the outcome of its fetch
fetchTwelve(o) ==
    CASE o.t = "reject" -> {AdFail(FetchFailedMsg)}
      [] o.t = "http" -> {AdFail("HTTP " \o BadStatus)}
      [] o.t = "bodyfail" -> {AdFail(BodyFailedMsg)}
      [] OTHER ->
           LET json == o.body
           IN  IF json.t = "null" THEN {AdFail(NullStatusMsg)}
               ELSE IF json.status = "error"
               THEN {AdFail(IF json.message.t = "str" /\ json.message.s # ""
                            THEN json.message.s ELSE "TwelveData error")}
               ELSE {AdOk(NumberOf(json.close), NumberOf(json.percent_change), "")}

\* fetchFMP, from the outcome of its fetch
fetchFMP(o) ==
    CASE o.t = "reject" -> {AdFail(FetchFailedMsg)}
      [] o.t = "http" -> {AdFail("HTTP " \o BadStatus)}
      [] o.t = "bodyfail" -> {AdFail(BodyFailedMsg)}
      [] OTHER ->
           LET json == o.body
           IN  IF json.t # "array" \/ Len(json.items) = 0
               THEN {AdFail("Bad FMP data")}
               ELSE {AdOk(NumberOf(json.items[1].price),
                          NumberOf(json.items[1].changesPercentage), "")}

\* aggFredLatestPair asking for two observations, as dxy.js does
aggFredLatestPair_NeedsTwo(series_id, o) ==
    CASE o.t = "reject" -> {AdFail(FetchFailedMsg)}
      [] o.t = "http" ->
           {AdFail("FRED HTTP " \o BadStatus \o " (" \o series_id \o ")"
                   \o (IF o.text # "" THEN " - " \o o.text ELSE ""))}
      [] o.t = "bodyfail" -> {AdFail(BodyFailedMsg)}
      [] OTHER ->
           LET json == o.body
               arr == IF json.hasObs THEN json.obs ELSE <<>>
               kept == SelectSeq(arr, LAMBDA x :
                          /\ x.value # JStr(".")
                          /\ x.value.t \notin {"null", "undef"}
                          /\ ~IsNaN(NumberOf(x.value)))
               clean == [k \in 1..Len(kept) |->
                           [date |-> kept[k].date, value |-> NumberOf(kept[k].value)]]
               n == Len(clean)
           IN  IF json.t = "null" THEN {AdFail(NullObsMsg)}
               ELSE IF n < 2 THEN {AdFail("No observations (" \o series_id \o ")")}
               ELSE LET price == clean[n].value
                        pcts == IF n >= 2 /\ clean[n - 1].value.v # 0
                                THEN PctChange(price.v, clean[n - 1].value.v)
                                ELSE {JNull}
                    IN  {AdOk(price, c, "") : c \in pcts}

\* fetchAllData.js fredLatestPair, from the outcome of its fetch
aggFredLatestPair(series_id, o) ==
    CASE o.t = "reject" -> {AdFail(FetchFailedMsg)}
      [] o.t = "http" ->
           {AdFail("FRED HTTP " \o BadStatus \o " (" \o series_id \o ")"
                   \o (IF o.text # "" THEN " - " \o o.text ELSE ""))}
      [] o.t = "bodyfail" -> {AdFail(BodyFailedMsg)}
      [] OTHER ->
           LET json == o.body
               arr == IF json.hasObs THEN json.obs ELSE <<>>
               kept == SelectSeq(arr, LAMBDA x :
                          /\ x.value # JStr(".")
                          /\ x.value.t \notin {"null", "undef"}
                          /\ ~IsNaN(NumberOf(x.value)))
               clean == [k \in 1..Len(kept) |->
                           [date |-> kept[k].date, value |-> NumberOf(kept[k].value)]]
               n == Len(clean)
           IN  IF json.t = "null" THEN {AdFail(NullObsMsg)}
               ELSE IF n = 0 THEN {AdFail("No observations (" \o series_id \o ")")}
               ELSE LET price == clean[n].value
                        pcts == IF n >= 2 /\ clean[n - 1].value.v # 0
                                THEN PctChange(price.v, clean[n - 1].value.v)
                                ELSE {JNull}
                    IN  {AdOk(price, c, "") : c \in pcts}

\* the keys of results, in the order the handler fills them
AggKeys == <<"spy", "tsla", "lit", "yieldCurve", "buffett", "gold", "dxy">>
AggKeySet == {AggKeys[k] : k \in 1..Len(AggKeys)}

\* what fills key k: a quote with fallback, an internal lambda, a FRED series
AggKind(k) ==
    CASE k <= 3 -> "quote"
      [] k <= 5 -> "lambda"
      [] OTHER -> "fred"

AggSeries(k) == IF k = 6 THEN GoldPM ELSE "DTWEXBGS"
AggPath(k) == IF k = 4 THEN PathYieldSpread ELSE PathBuffett

\* the values of results: not assigned yet, { price, pct }, { error } and
\* the parsed body of an internal lambda
Unset == [t |-> "undef", price |-> JUndef, pct |-> JUndef, error |-> ""]
AggData(r) == [t |-> "data", price |-> r.price, pct |-> r.changePercent, error |-> ""]
AggErr(msg) == [t |-> "error", price |-> JUndef, pct |-> JUndef, error |-> msg]
AggJson == [t |-> "json", price |-> JUndef, pct |-> JUndef, error |-> ""]

\* sent logs the host or path of every request the invocation issued
IdleAgg ==
    [pc |-> "idle", step |-> 0, leg |-> "", results |-> [k \in AggKeySet |-> Unset],
     sent |-> <<>>, resp |-> NoResp]

\* JSON.stringify of one value of results
AggEncode(v) ==
    CASE v.t = "data" -> ("price" :> Stringify(v.price)) @@ ("pct" :> Stringify(v.pct))
      [] v.t = "error" -> ("error" :> v.error)
      [] OTHER -> ("body" :> "json")

\* the return of the handler
AggResponse(results) ==
    [statusCode |-> 200, headers |-> PlainHeaders,
     body |-> [k \in {x \in AggKeySet : results[x] # Unset} |-> AggEncode(results[k])]]

\* the bodies the providers and the internal lambdas may answer with
LambdaBody == [t |-> "obj", hasObs |-> FALSE, obs |-> <<>>]

AggTdOutcomes ==
    {NetReject, NetHttp, NetOk(TdError(JUndef)),
     NetOk(TdQuote(JNumStr(20004), JNumStr(1236))), NetOk(TdQuote(JUndef, JUndef))}

AggFmpOutcomes ==
    {NetHttp, NetOk(FmpArray(<<>>)),
     NetOk(FmpArray(<<FmpQuote(JNum(18504), JUndef, JNum(1236))>>))}

AggLambdaOutcomes == {NetReject, NetHttp, NetOk(LambdaBody)}

AggFredOutcomes ==
    {NetHttp, NetOk(FredJson(<<>>)),
     NetOk(FredJson(<<Obs(1, JNumStr(19000)), Obs(2, JNumStr(20004))>>))}

RECURSIVE AggBegin(_, _)
\* the statement filling key k, up to its first await; past the last key,
\* the return
AggBegin(a, k) ==
    IF k > Len(AggKeys)
    THEN [a EXCEPT !.pc = "done", !.leg = "", !.resp = AggResponse(a.results)]
    ELSE LET a1 == [a EXCEPT !.pc = "await", !.step = k]
         IN  CASE AggKind(k) = "quote" ->
                    [a1 EXCEPT !.leg = "fetchTwelve", !.sent = Append(@, HostTwelve)]
               [] AggKind(k) = "lambda" ->
                    [a1 EXCEPT !.leg = "lambda", !.sent = Append(@, AggPath(k))]
               [] OTHER ->
                    IF ~env.FRED_KEY
                    THEN AggBegin([a1 EXCEPT !.results[AggKeys[k]] =
                                       AggErr("FRED_KEY missing")], k + 1)
                    ELSE [a1 EXCEPT !.leg = "fredLatestPair",
                                    !.sent = Append(@, HostFRED)]

\* results.<key> = v, and on to the next statement
AggStore(a, v) ==
    AggBegin([a EXCEPT !.results[AggKeys[a.step]] = v], a.step + 1)

\* AggCatch with the catch block missing: the exception leaves the handler
AggCatch_Escapes(a, msg) ==
    [a EXCEPT !.pc = "thrown", !.leg = ""]

\* catch (err) { results.<key> = { error: err.message } }
AggCatch(a, msg) == AggStore(a, AggErr(msg))

\* the catch blocks of tdWithFmpFallback after fetchTwelve threw msg
AggTwelveFailed(a, msg) ==
    IF env.FMP_KEY
    THEN [a EXCEPT !.leg = "fetchFMP", !.sent = Append(@, HostFMP)]
    ELSE AggStore(a, AggErr(msg))

\* the message of a failed internal fetch
AggLambdaError(o) ==
    CASE o.t = "reject" -> FetchFailedMsg
      [] o.t = "http" -> "HTTP " \o BadStatus
      [] OTHER -> BodyFailedMsg

\* the handler is invoked
AggInvoke ==
    /\ fn = "all"
    /\ agg.pc \in {"idle", "done"}
    /\ agg' = AggBegin(IdleAgg, 1)
    /\ UNCHANGED <<fn, env, now, cached, vix, call, gold, ys, dxy, probe, reqs, writes, net>>

\* the awaited helper or fetch settles
AggFetchSettles ==
    /\ fn = "all"
    /\ agg.pc = "await"
    /\ CASE agg.leg = "fetchTwelve" ->
              \E o \in AggTdOutcomes : \E r \in fetchTwelve(o) :
                agg' = IF r.ok THEN AggStore(agg, AggData(r))
                       ELSE AggTwelveFailed(agg, r.err)
         [] agg.leg = "fetchFMP" ->
              \E o \in AggFmpOutcomes : \E r \in fetchFMP(o) :
                agg' = AggStore(agg, IF r.ok THEN AggData(r) ELSE AggErr(r.err))
         [] agg.leg = "lambda" ->
              \E o \in AggLambdaOutcomes :
                agg' = IF o.t = "ok" THEN AggStore(agg, AggJson)
                       ELSE AggCatch(agg, AggLambdaError(o))
         [] OTHER ->
              \E o \in AggFredOutcomes :
                \E r \in aggFredLatestPair(AggSeries(agg.step), o) :
                  agg' = IF r.ok THEN AggStore(agg, AggData(r))
                         ELSE AggCatch(agg, r.err)
    /\ UNCHANGED <<fn, env, now, cached, vix, call, gold, ys, dxy, probe, reqs, writes, net>>

----------------------------------------------------------------------------
(* a direct call of one adapter or helper on one answer of its provider *)

MaxSeries == 3       \* longest observations array handed to a directly called adapter

NoProbe == [f |-> "", series |-> "", arg |-> NetReject, out |-> NoResult]

AdapterNames ==
    {"fromFRED", "fromFMP", "fromCBOE", "fromStooq", "tdGold", "fmpGold",
     "fredLatestPair", "fetchLatestObservation", "dxy", "fetchTwelve", "fetchFMP",
     "aggFredLatestPair"}

\* the series an adapter is called for
AdapterSeries(f) ==
    CASE f = "fromFRED" -> {"VIXCLS"}
      [] f = "fredLatestPair" -> {GoldPM, GoldAM}
      [] f = "fetchLatestObservation" -> Series
      [] f \in {"dxy", "aggFredLatestPair"} -> {"DTWEXBGS"}
      [] OTHER -> {""}

\* the answers an adapter is called on; the VIX adapters run behind the
\* retrying transport and only see the body of a successful answer
AdapterAnswers(f) ==
    CASE f = "fromFRED" -> {NetOk(b) : b \in FredSeries(VixValues, PastDates, MaxSeries)}
      [] f = "fromFMP" -> {NetOk(b) : b \in FmpBodies}
      [] f \in {"fromCBOE", "fromStooq"} -> {NetOk(b) : b \in CsvBodies}
      [] f \in {"tdGold", "fetchTwelve"} -> NetOutcomes(TdBodies)
      [] f \in {"fmpGold", "fetchFMP"} -> NetOutcomes(FmpBodies)
      [] f = "fetchLatestObservation" ->
           NetOutcomes(FredSeries(YieldValues, YieldDates, MaxSeries))
      [] f = "dxy" -> NetOutcomes(FredSeries(DxyValues, PastDates, MaxSeries))
      [] OTHER ->
           NetOutcomes(FredSeries(GoldValues, PastDates, MaxSeries)) \cup {NetHttpText}

\* the results of adapter f called for series s on answer o
AdapterRun(f, s, o) ==
    CASE f = "fromFRED" -> fromFRED(o.body)
      [] f = "fromFMP" -> fromFMP(o.body)
      [] f = "fromCBOE" -> fromCBOE(o.body)
      [] f = "fromStooq" -> fromStooq(o.body)
      [] f = "tdGold" -> tdGold(o)
      [] f = "fmpGold" -> fmpGold(o)
      [] f = "fredLatestPair" -> fredLatestPair(s, o)
      [] f = "fetchLatestObservation" -> {fetchLatestObservation(s, o)}
      [] f = "dxy" -> DxyRespond(o)
      [] f = "fetchTwelve" -> fetchTwelve(o)
      [] f = "fetchFMP" -> fetchFMP(o)
      [] OTHER -> aggFredLatestPair(s, o)

AdapterCall ==
    /\ fn = "adapter"
    /\ probe.f = ""
    /\ \E f \in AdapterNames : \E s \in AdapterSeries(f) : \E o \in AdapterAnswers(f) :
         \E r \in AdapterRun(f, s, o) :
           probe' = [f |-> f, series |-> s, arg |-> o, out |-> r]
    /\ UNCHANGED <<fn, env, now, cached, vix, call, gold, ys, dxy, agg, reqs, writes, net>>

----------------------------------------------------------------------------
(* vixIndex.js: handler invocations running side by side on one cache *)

MaxWrites == 2       \* no new invocation starts once cached was assigned this often

\* the invocations in progress at once
Requests == {1, 2}

IdleReqs == [i \in Requests |-> [vix |-> IdleVix, call |-> NoCall]]

\* invocation i together with the module-level cache it shares
ReqState(i) == [vix |-> reqs[i].vix, call |-> reqs[i].call, cached |-> cached]

ReqSet(i, s) ==
    /\ reqs' = [reqs EXCEPT ![i] = [vix |-> s.vix, call |-> s.call]]
    /\ cached' = s.cached

\* the answers explored here: a failure status or one body the adapter
\* accepts (two for FRED)
ConcOutcomes(k) ==
    CASE k = 1 -> {NetHttp,
                   NetOk(FredJson(<<Obs(2, JNumStr(20004)), Obs(1, JNumStr(0))>>)),
                   NetOk(FredJson(<<Obs(2, JNumStr(0))>>))}
      [] k = 2 -> {NetHttp, NetOk(FmpArray(<<FmpQuote(JNum(18504), JUndef, JNum(1236))>>))}
      [] OTHER -> {NetHttp, NetOk(<<Header, Row(JNumStr(0)), Row(JNumStr(20004))>>)}

\* the value cached = { ...r, timestamp: Date.now() } assigns
Written(r) ==
    [price |-> r.price, changePercent |-> r.changePercent,
     source |-> r.source, timestamp |-> now]

\* exports.handler is invoked while other invocations may be awaiting
ConcInvoke ==
    /\ fn = "vixConcurrent"
    /\ Len(writes) < MaxWrites
    /\ \E i \in Requests :
         /\ reqs[i].vix.pc \in {"idle", "done"}
         /\ ReqSet(i, VixBegin([ReqState(i) EXCEPT !.vix = IdleVix, !.call = NoCall], 1))
    /\ UNCHANGED <<fn, env, now, vix, call, gold, ys, dxy, agg, probe, writes, net>>

\* the request one invocation awaits settles; the handler runs on to its next
\* await or to its return
ConcFetchSettles ==
    /\ fn = "vixConcurrent"
    /\ \E i \in Requests :
         /\ reqs[i].vix.pc = "await"
         /\ reqs[i].call.pc = "fetch"
         /\ \E o \in ConcOutcomes(reqs[i].vix.adapter) :
              LET c == CallSettle(reqs[i].call, o)
                  s == [ReqState(i) EXCEPT !.call = c]
              IN  CASE c.pc = "sleep" -> ReqSet(i, s) /\ UNCHANGED writes
                    [] c.pc = "thrown" ->
                         ReqSet(i, VixAdapterFailed(s, c.err)) /\ UNCHANGED writes
                    [] OTHER ->
                         \E r \in VixParse(reqs[i].vix.adapter, c.out) :
                           IF r.ok
                           THEN /\ ReqSet(i, VixAdapterSucceeded(s, r))
                                /\ writes' = Append(writes, Written(r))
                           ELSE /\ ReqSet(i, VixAdapterFailed(s, r.err))
                                /\ UNCHANGED writes
    /\ UNCHANGED <<fn, env, now, vix, call, gold, ys, dxy, agg, probe, net>>

\* the backoff sleep of one invocation is over
ConcSleepDone ==
    /\ fn = "vixConcurrent"
    /\ \E i \in Requests :
         /\ reqs[i].vix.pc = "await"
         /\ reqs[i].call.pc = "sleep"
         /\ reqs' = [reqs EXCEPT ![i].call = CallWake(@)]
    /\ UNCHANGED <<fn, env, now, cached, vix, call, gold, ys, dxy, agg, probe, writes, net>>

----------------------------------------------------------------------------
(* vixIndex.js: one handler invocation with its network requests logged *)

\* an entry an earlier invocation may have left in the cache
EarlierEntry ==
    [price |-> JNum(20000), changePercent |-> JNull, source |-> SrcFRED,
     timestamp |-> StartMs - TickMs]

\* the request, if any, in flight when the code reaches its next await
Requested(c) == IF c.pc = "fetch" THEN <<c.url>> ELSE <<>>

TermSet(s) ==
    /\ VixSet(s)
    /\ net' = net \o Requested(s.call)

\* exports.handler is invoked
TermInvoke ==
    /\ fn = "vixOnce"
    /\ vix.pc = "idle"
    /\ TermSet(VixBegin([VixState EXCEPT !.vix = IdleVix, !.call = NoCall], 1))
    /\ UNCHANGED <<fn, env, now, gold, ys, dxy, agg, probe, reqs, writes>>

\* the request of the running adapter settles
TermFetchSettles ==
    /\ fn = "vixOnce"
    /\ vix.pc = "await"
    /\ call.pc = "fetch"
    /\ \E o \in VixOutcomes(vix.adapter) :
         LET c == CallSettle(call, o)
             s == [VixState EXCEPT !.call = c]
         IN  CASE c.pc = "sleep" -> TermSet(s)
               [] c.pc = "thrown" -> TermSet(VixAdapterFailed(s, c.err))
               [] OTHER ->
                    \E r \in VixParse(vix.adapter, c.out) :
                      IF r.ok THEN TermSet(VixAdapterSucceeded(s, r))
                      ELSE TermSet(VixAdapterFailed(s, r.err))
    /\ UNCHANGED <<fn, env, now, gold, ys, dxy, agg, probe, reqs, writes>>

\* the backoff sleep of the running adapter is over
TermSleepDone ==
    /\ fn = "vixOnce"
    /\ vix.pc = "await"
    /\ call.pc = "sleep"
    /\ call' = CallWake(call)
    /\ net' = net \o Requested(CallWake(call))
    /\ UNCHANGED <<fn, env, now, cached, vix, gold, ys, dxy, agg, probe, reqs, writes>>

----------------------------------------------------------------------------
\* time passes
Tick ==
    /\ now < MaxNow
    /\ now' = now + TickMs
    /\ UNCHANGED <<fn, env, cached, vix, call, gold, ys, dxy, agg, probe, reqs, writes, net>>

Functions == {"vix", "gold", "yieldSpread", "dxy", "retry"}

\* process.env, restricted to the keys the hosted function reads
KeysRead(f) ==
    CASE f = "vix" -> {"FRED_KEY", "FMP_KEY"}
      [] f = "gold" -> {"FRED_KEY", "FMP_KEY", "TWELVE_KEY"}
      [] f = "dxy" -> {"FRED_KEY"}
      [] OTHER -> {}

EnvFor(f) ==
    {e \in [FRED_KEY : BOOLEAN, FMP_KEY : BOOLEAN, TWELVE_KEY : BOOLEAN] :
        /\ "FRED_KEY" \notin KeysRead(f) => ~e.FRED_KEY
        /\ "FMP_KEY" \notin KeysRead(f) => ~e.FMP_KEY
        /\ "TWELVE_KEY" \notin KeysRead(f) => ~e.TWELVE_KEY}

Init ==
    /\ fn \in Functions
    /\ env \in EnvFor(fn)
    /\ now = StartMs
    /\ cached = EmptyCache
    /\ vix = IdleVix
    /\ call = NoCall
    /\ gold = IdleGold
    /\ ys = IdleYs
    /\ dxy = IdleDxy
    /\ agg = IdleAgg
    /\ probe = NoProbe
    /\ reqs = <<>>
    /\ writes = <<>>
    /\ net = <<>>

Next ==
    \/ VixInvoke
    \/ VixFetchSettles
    \/ VixSleepDone
    \/ GoldInvoke
    \/ GoldFetchSettles
    \/ YsInvoke
    \/ YsSeriesSettles
    \/ DxyInvoke
    \/ DxyFetchSettles
    \/ RetryInvoke
    \/ RetryFetchSettles
    \/ RetrySleepDone
    \/ Tick

Spec == Init /\ [][Next]_vars

\* the aggregator function on its own
AllInit ==
    /\ fn = "all"
    /\ env \in [FRED_KEY : BOOLEAN, FMP_KEY : BOOLEAN, TWELVE_KEY : BOOLEAN]
    /\ now = StartMs
    /\ cached = EmptyCache
    /\ vix = IdleVix
    /\ call = NoCall
    /\ gold = IdleGold
    /\ ys = IdleYs
    /\ dxy = IdleDxy
    /\ agg = IdleAgg
    /\ probe = NoProbe
    /\ reqs = <<>>
    /\ writes = <<>>
    /\ net = <<>>

AllNext == AggInvoke \/ AggFetchSettles

AllSpec == AllInit /\ [][AllNext]_vars

\* the adapters called directly
AdapterInit ==
    /\ fn = "adapter"
    /\ env = [FRED_KEY |-> TRUE, FMP_KEY |-> TRUE, TWELVE_KEY |-> TRUE]
    /\ now = StartMs
    /\ cached = EmptyCache
    /\ vix = IdleVix
    /\ call = NoCall
    /\ gold = IdleGold
    /\ ys = IdleYs
    /\ dxy = IdleDxy
    /\ agg = IdleAgg
    /\ probe = NoProbe
    /\ reqs = <<>>
    /\ writes = <<>>
    /\ net = <<>>

AdapterNext == AdapterCall

AdapterSpec == AdapterInit /\ [][AdapterNext]_vars

\* VIX handler invocations interleaved at their awaits
ConcInit ==
    /\ fn = "vixConcurrent"
    /\ env \in EnvFor("vix")
    /\ now = StartMs
    /\ cached = EmptyCache
    /\ vix = IdleVix
    /\ call = NoCall
    /\ gold = IdleGold
    /\ ys = IdleYs
    /\ dxy = IdleDxy
    /\ agg = IdleAgg
    /\ probe = NoProbe
    /\ reqs = IdleReqs
    /\ writes = <<>>
    /\ net = <<>>

ConcNext == ConcInvoke \/ ConcFetchSettles \/ ConcSleepDone \/ Tick

ConcSpec == ConcInit /\ [][ConcNext]_vars

\* one VIX handler invocation; every pending request settles and every
\* backoff timer fires
TermInit ==
    /\ fn = "vixOnce"
    /\ env \in EnvFor("vix")
    /\ now = StartMs
    /\ cached \in {EmptyCache, EarlierEntry}
    /\ vix = IdleVix
    /\ call = NoCall
    /\ gold = IdleGold
    /\ ys = IdleYs
    /\ dxy = IdleDxy
    /\ agg = IdleAgg
    /\ probe = NoProbe
    /\ reqs = <<>>
    /\ writes = <<>>
    /\ net = <<>>

TermNext == TermInvoke \/ TermFetchSettles \/ TermSleepDone \/ Tick

TermSpec ==
    /\ TermInit
    /\ [][TermNext]_vars
    /\ WF_vars(TermFetchSettles)
    /\ WF_vars(TermSleepDone)

----------------------------------------------------------------------------
(* Properties *)

Min(a, b) == IF a < b THEN a ELSE b

\* every adapter of the VIX chain was tried and failed
VixAllFailed ==
    /\ vix.pc = "done"
    /\ Len(vix.tried) = Len(VixAdapters)
    /\ \A j \in 1..Len(vix.tried) : ~vix.tried[j].ok

\* age of the cache entry when the VIX response was built
VixAgeAtResponse == vix.resp.body["timestamp"] - cached.timestamp

VixLiveSources == <<SrcFRED, SrcFMP, SrcCBOE, SrcStooq>>
GoldLiveSources == <<SrcTdGold, SrcFmpGold, "FRED " \o GoldPM, "FRED " \o GoldAM>>

\* the messages adapter k of the gold chain can fail with
GoldMessages ==
    [k \in 1..Len(GoldAttempts) |->
        {GoldKeyMsg(k)} \cup
        {r.err : r \in {x \in UNION {GoldRun(k, o) : o \in GoldOutcomes(k)} : ~x.ok}}]

\* C1: in both chains, once adapter i has succeeded no later adapter is
\* invoked in that request, and the response carries adapter i's price,
\* change percent and source.
C1_FirstSuccessWins ==
    /\ vix.won # 0 =>
         /\ vix.pc = "done"
         /\ vix.invoked = SubSeq(VixAdapters, 1, vix.won)
         /\ vix.r.ok /\ vix.r.source = VixLiveSources[vix.won]
         /\ vix.resp.statusCode = 200
         /\ vix.resp.body["price"] = vix.r.price
         /\ vix.resp.body["changePercent"] = vix.r.changePercent
         /\ vix.resp.body["source"] = vix.r.source
    /\ gold.won # 0 =>
         /\ gold.pc = "done"
         /\ gold.invoked = SubSeq(GoldAttempts, 1, gold.won)
         /\ gold.r.ok /\ gold.r.source = GoldLiveSources[gold.won]
         /\ gold.resp.statusCode = 200
         /\ gold.resp.body["price"] = gold.r.price
         /\ gold.resp.body["pct"] = gold.r.changePercent
         /\ gold.resp.body["source"] = gold.r.source

\* FMP answered after FRED had failed; CBOE and Stooq were not called
C1_Witness ==
    /\ vix.won = 2
    /\ vix.invoked = <<"FRED", "FMP">>
    /\ vix.resp.body["source"] = SrcFMP

\* C2: a VIX request whose four adapters all fail while the cache holds an
\* entry younger than two hours answers 200 with the entry's price and
\* change percent and its source suffixed " (cached)".
C2_FreshCacheServed ==
    (VixAllFailed /\ cached # EmptyCache /\ VixAgeAtResponse < FreshMs) =>
        /\ vix.resp.statusCode = 200
        /\ vix.resp.body["price"] = cached.price
        /\ vix.resp.body["changePercent"] = cached.changePercent
        /\ vix.resp.body["source"] = cached.source \o " (cached)"

\* an entry captured an hour earlier is served
C2_Witness ==
    /\ VixAllFailed
    /\ cached.source = SrcFMP
    /\ VixAgeAtResponse = TickMs
    /\ vix.resp.body["source"] = "FMP ^VIX (cached)"

\* C3: when every adapter of a chain fails and the cache is empty or stale
\* (age >= the window), the result is the failure with one diagnostics entry
\* per adapter, in adapter order; a stale entry is never served.
C3_TotalFailure ==
    /\ (VixAllFailed /\ (cached = EmptyCache \/ VixAgeAtResponse >= FreshMs)) =>
         /\ "error" \in DOMAIN vix.resp.body
         /\ "price" \notin DOMAIN vix.resp.body
         /\ Len(vix.resp.body["_debug"].tried) = Len(VixAdapters)
         /\ \A j \in 1..Len(VixAdapters) :
              /\ vix.resp.body["_debug"].tried[j].src = VixAdapters[j]
              /\ ~vix.resp.body["_debug"].tried[j].ok
    /\ (gold.pc = "done" /\ gold.won = 0) =>
         /\ "error" \in DOMAIN gold.resp.body
         /\ "price" \notin DOMAIN gold.resp.body
         /\ Len(gold.resp.body["_debug"].tried) = Len(GoldAttempts)
         /\ \A j \in 1..Len(GoldAttempts) :
              gold.resp.body["_debug"].tried[j] \in GoldMessages[j]

\* every VIX adapter failed with an entry in the cache that is exactly two
\* hours old
C3_Witness ==
    /\ VixAllFailed
    /\ cached # EmptyCache
    /\ VixAgeAtResponse = FreshMs
    /\ "error" \in DOMAIN vix.resp.body

\* C4: after a VIX request in which an adapter succeeded the cache is that
\* adapter's result stamped with the time of the write, and the cache is
\* always either empty or a live adapter result, whose source has no
\* " (cached)" suffix.
C4_CacheHoldsLiveResult ==
    /\ (vix.pc = "done" /\ vix.won # 0) =>
         cached = [price |-> vix.r.price, changePercent |-> vix.r.changePercent,
                   source |-> vix.r.source,
                   timestamp |-> vix.resp.body["timestamp"]]
    /\ \/ cached = EmptyCache
       \/ /\ \E j \in 1..Len(VixLiveSources) : cached.source = VixLiveSources[j]
          /\ IsFinite(cached.price)
          /\ cached.changePercent.t \in {"num", "null"}
          /\ cached.timestamp \in StartMs..now

\* CBOE answered some time after the process started and is in the cache
C4_Witness ==
    /\ vix.pc = "done"
    /\ vix.won = 3
    /\ cached.source = SrcCBOE
    /\ cached.timestamp > StartMs

\* C5 (as claimed): when all gold adapters fail the gold endpoint answers 200
\* with a neutral payload { price: 0, pct: null, ... } and no error body.
C5_GoldNeutralPayload ==
    (gold.pc = "done" /\ gold.won = 0) =>
        /\ gold.resp.statusCode = 200
        /\ "error" \notin DOMAIN gold.resp.body
        /\ "price" \in DOMAIN gold.resp.body
        /\ gold.resp.body["price"] = JNum(0)
        /\ gold.resp.body["pct"] = JNull

\* C5 (amended): when all gold adapters fail the gold endpoint answers 200
\* with the body { error: 'All gold sources failed', _debug: { tried },
\* timestamp }, which has neither price nor pct.
C5_GoldErrorBody ==
    (gold.pc = "done" /\ gold.won = 0) =>
        /\ gold.resp.statusCode = 200
        /\ DOMAIN gold.resp.body = {"error", "_debug", "timestamp"}
        /\ gold.resp.body["error"] = "All gold sources failed"
        /\ gold.resp.body["_debug"].tried = gold.tried

\* the four gold adapters failed, the first three for their missing keys
C5_Witness ==
    /\ gold.pc = "done"
    /\ gold.won = 0
    /\ Len(gold.tried) = 4
    /\ gold.tried[1] = "TWELVE_KEY missing"
    /\ gold.tried[4] = FetchFailedMsg
    /\ gold.resp.statusCode = 200

\* the VIX request failed for good: every adapter failed and no fresh cache
VixTotalFailure ==
    VixAllFailed /\ (cached = EmptyCache \/ VixAgeAtResponse >= FreshMs)

\* C6 (as claimed): on total failure the VIX and the DXY endpoint both answer
\* 500 with a body holding error and _debug.tried.
C6_FailureBodies ==
    /\ VixTotalFailure =>
         /\ vix.resp.statusCode = 500
         /\ "error" \in DOMAIN vix.resp.body
         /\ vix.resp.body["_debug"].tried = vix.tried
    /\ (dxy.pc = "done" /\ dxy.err # "") =>
         /\ dxy.resp.statusCode = 500
         /\ "error" \in DOMAIN dxy.resp.body
         /\ "_debug" \in DOMAIN dxy.resp.body

\* C6 (amended): on total failure the VIX endpoint answers 500 with error and
\* _debug.tried; the DXY endpoint answers 500 with a body holding the error
\* message and a timestamp, without _debug.
C6_FailureBodiesAmended ==
    /\ VixTotalFailure =>
         /\ vix.resp.statusCode = 500
         /\ "error" \in DOMAIN vix.resp.body
         /\ vix.resp.body["_debug"].tried = vix.tried
    /\ (dxy.pc = "done" /\ dxy.err # "") =>
         /\ dxy.resp.statusCode = 500
         /\ DOMAIN dxy.resp.body = {"error", "timestamp"}
         /\ dxy.resp.body["error"] = dxy.err

\* FRED answered the DXY request with fewer than two observations
C6_Witness ==
    /\ dxy.pc = "done"
    /\ dxy.err = "Not enough DXY observations"
    /\ dxy.resp.statusCode = 500

\* C7: the yield-spread endpoint answers 200 in every outcome, and with
\* spread 0 and inverted false when the fetch of either series failed.
C7_YieldAlways200 ==
    ys.pc = "done" =>
        /\ ys.resp.statusCode = 200
        /\ (\E s \in Series : ys.series[s].st = "failed") =>
             /\ ys.resp.body["spread"] = JNum(0)
             /\ ys.resp.body["inverted"] = FALSE

\* DGS10 was fetched, DGS2 parsed to NaN
C7_Witness ==
    /\ ys.pc = "done"
    /\ ys.series["DGS10"].st = "ok"
    /\ ys.series["DGS2"].err = "Parsed NaN for DGS2 observation"
    /\ ys.resp.statusCode = 200
    /\ ys.resp.body["spread"] = JNum(0)

\* C8: when both series are fetched, with yields in hundredths, spread is
\* DGS10 - DGS2 and inverted is true exactly when DGS10 < DGS2.
C8_SpreadValue ==
    LET y10 == ys.series["DGS10"].val
        y2 == ys.series["DGS2"].val
    IN  (/\ ys.pc = "done"
         /\ \A s \in Series : ys.series[s].st = "ok"
         /\ y10.v % 10 = 0 /\ y2.v % 10 = 0) =>
            /\ ys.resp.body["spread"] = JNum(y10.v - y2.v)
            /\ ys.resp.body["inverted"] = (y10.v < y2.v)

\* DGS10 = 4.20 and DGS2 = 4.50 give spread -0.30, inverted
C8_Witness ==
    /\ ys.pc = "done"
    /\ ys.series["DGS10"] = Fulfilled(JNum(4200))
    /\ ys.series["DGS2"] = Fulfilled(JNum(4500))
    /\ ys.resp.body["spread"] = JNum(-300)
    /\ ys.resp.body["inverted"] = TRUE

NoStore(resp) ==
    /\ "Cache-Control" \in DOMAIN resp.headers
    /\ resp.headers["Cache-Control"] = "no-store, must-revalidate"

\* C9: every response of the VIX, DXY, gold and yield-spread endpoints
\* carries Cache-Control: no-store, must-revalidate.
C9_NoStoreEverywhere ==
    /\ vix.pc = "done" => NoStore(vix.resp)
    /\ dxy.pc = "done" => NoStore(dxy.resp)
    /\ gold.pc = "done" => NoStore(gold.resp)
    /\ ys.pc = "done" => NoStore(ys.resp)

\* failed attempts of the transport call in progress
CallFailures == Len(call.seen) - (IF call.pc = "returned" THEN 1 ELSE 0)

\* C10: a transport call with attempts = n >= 1 issues at most n requests,
\* counts a non-2xx answer as a failed attempt, returns at the first
\* successful attempt without a further request, waits delay * k after the
\* k-th failed attempt and does not wait after the n-th.
C10_RetryDiscipline ==
    (call.pc # "none" /\ call.attempts >= 1) =>
        /\ call.sent <= call.attempts
        /\ call.sent = Len(call.seen) + (IF call.pc = "fetch" THEN 1 ELSE 0)
        /\ \A j \in 1..Len(call.seen) :
             (call.seen[j] = "ok") <=> (j = Len(call.seen) /\ call.pc = "returned")
        /\ call.pc = "returned" => call.seen # <<>>
        /\ call.pc = "thrown" <=> CallFailures = call.attempts
        /\ Len(call.slept) = Min(CallFailures, call.attempts - 1)
        /\ \A k \in 1..Len(call.slept) : call.slept[k] = call.delay * k

\* three attempts all failed, the last with a 503: two waits, of 300 and 600
C10_Witness ==
    /\ call.pc = "thrown"
    /\ call.attempts = 3
    /\ call.sent = 3
    /\ call.seen[3] = "http"
    /\ call.slept = <<300, 600>>

\* the message msg names the address url
MentionsUrl(msg, url) == \E prefix \in {"", "HTTP " \o BadStatus \o " "} : msg = prefix \o url

\* C11: when all n >= 1 attempts of a transport call fail, the call throws
\* (it returns no value), and the error it throws is the one of the last
\* attempt and carries the URL.
C11_LastCauseWithUrl ==
    (call.pc = "thrown" /\ call.attempts >= 1) =>
        /\ call.out = <<>>
        /\ call.err = AttemptError(call, [t |-> call.seen[Len(call.seen)]])
        /\ MentionsUrl(call.err, call.url)

\* the aggregator invocation issued a request to host h
AggRequested(h) == \E j \in 1..Len(agg.sent) : agg.sent[j] = h

\* C12: an adapter whose key is absent fails before it issues a request, and
\* the failure is handled like any other: it is recorded under the adapter's
\* key and the handler goes on to the next statement and its response.
C12_MissingKeyFailsFast ==
    /\ ~env.TWELVE_KEY => ~AggRequested(HostTwelve)
    /\ ~env.FMP_KEY => ~AggRequested(HostFMP)
    /\ ~env.FRED_KEY =>
         /\ ~AggRequested(HostFRED)
         /\ agg.pc = "done" =>
              /\ agg.results["gold"] = AggErr("FRED_KEY missing")
              /\ agg.results["dxy"] = AggErr("FRED_KEY missing")
              /\ agg.resp.statusCode = 200

\* the adapters whose result is { price, changePercent or pct, ... }
QuoteAdapters ==
    {"fromFRED", "fromFMP", "fromCBOE", "fromStooq", "tdGold", "fmpGold",
     "fredLatestPair", "fetchTwelve", "fetchFMP", "aggFredLatestPair"}

\* C13: every result a quote adapter or helper returns, and every body the
\* DXY endpoint answers 200 with, has a finite numeric price and a change
\* percent that is a finite number or null.
C13_FinitePrice ==
    /\ (probe.f \in QuoteAdapters /\ probe.out.ok) =>
         /\ IsFinite(probe.out.price)
         /\ probe.out.changePercent.t \in {"num", "null"}
    /\ (probe.f = "dxy" /\ probe.out.err = "") =>
         /\ IsFinite(probe.out.resp.body["price"])
         /\ probe.out.resp.body["changePercent"].t \in {"num", "null"}

\* the adapters that read a FRED observations array
SeriesAdapters ==
    {"fromFRED", "fredLatestPair", "aggFredLatestPair", "dxy", "fetchLatestObservation"}

\* the observations array the directly called adapter was given
ProbeObs ==
    IF probe.f \in SeriesAdapters /\ probe.arg.t = "ok" /\ probe.arg.body.hasObs
    THEN probe.arg.body.obs
    ELSE <<>>

\* the adapter returned a result
ProbeOk ==
    CASE probe.f = "dxy" -> probe.out.err = ""
      [] probe.f = "fetchLatestObservation" -> probe.out.st = "ok"
      [] OTHER -> probe.out.ok

\* the price and the change percent of the result
ProbePrice ==
    CASE probe.f = "dxy" -> probe.out.resp.body["price"]
      [] probe.f = "fetchLatestObservation" -> probe.out.val
      [] OTHER -> probe.out.price

ProbeChange ==
    CASE probe.f = "dxy" -> probe.out.resp.body["changePercent"]
      [] probe.f = "fetchLatestObservation" -> JNull
      [] OTHER -> probe.out.changePercent

\* the number an observation's value stands for
ProbeNumber(x) ==
    IF probe.f \in {"dxy", "fetchLatestObservation"} THEN ParseFloatOf(x) ELSE NumberOf(x)

\* the prices the adapter may report for an observation's value
PricesOf(x) ==
    IF probe.f \in {"fromFRED", "dxy"} THEN ToFixed2(ProbeNumber(x).v)
    ELSE {ProbeNumber(x)}

Sentinel == JStr(".")

\* an observation that is neither the sentinel nor missing nor non-numeric
IsValidObs(o) ==
    /\ o.value # Sentinel
    /\ o.value.t \notin {"null", "undef"}
    /\ IsFinite(ProbeNumber(o.value))

ValidObs == SelectSeq(ProbeObs, IsValidObs)

\* C14: a time-series adapter never makes a result out of the sentinel ".":
\* the price of a result is the value of a non-sentinel observation, a
\* numeric change percent is computed from two non-sentinel observations, and
\* on an array holding only sentinels the adapter fails.
C14_SentinelNeverUsed ==
    probe.f \in SeriesAdapters =>
        /\ ProbeOk =>
             \E k \in 1..Len(ProbeObs) :
               /\ IsValidObs(ProbeObs[k])
               /\ ProbePrice \in PricesOf(ProbeObs[k].value)
               /\ ProbeChange.t = "num" =>
                    \E l \in 1..Len(ProbeObs) :
                      /\ l # k
                      /\ IsValidObs(ProbeObs[l])
                      /\ ProbeNumber(ProbeObs[l].value).v # 0
                      /\ ProbeChange \in PctChange(ProbeNumber(ProbeObs[k].value).v,
                                                   ProbeNumber(ProbeObs[l].value).v)
        /\ (\A k \in 1..Len(ProbeObs) : ProbeObs[k].value = Sentinel) => ~ProbeOk

\* fromFRED was given a sentinel, a number and a sentinel: the number is the
\* price and there is no change percent
C14_Witness ==
    /\ probe.f = "fromFRED"
    /\ Len(ProbeObs) = 3
    /\ ProbeObs[1].value = Sentinel
    /\ ProbeObs[2].value = JNumStr(20004)
    /\ ProbeObs[3].value = Sentinel
    /\ probe.out.ok
    /\ probe.out.price = JNum(20000)
    /\ probe.out.changePercent = JNull

\* the adapters that compute a change percent from two observations
PairAdapters ==
    {"fromFRED", "fromCBOE", "fromStooq", "dxy", "fredLatestPair", "aggFredLatestPair"}

\* the adapters that ask the provider for the newest observation first
\* (sort_order=desc); the others read the series in ascending order
NewestFirst == probe.f \in {"fromFRED", "dxy", "fetchLatestObservation"}

NonSentinel == SelectSeq(ProbeObs, LAMBDA o : o.value # Sentinel)

\* positions in ValidObs of the observation the provider's order makes the
\* latest and of the one before it
LatestAt == IF NewestFirst THEN 1 ELSE Len(ValidObs)
PreviousAt == IF NewestFirst THEN 2 ELSE Len(ValidObs) - 1

\* the rows of the CSV text the directly called adapter was given
ProbeLines == IF probe.f \in {"fromCBOE", "fromStooq"} THEN CsvLines(probe.arg.body) ELSE <<>>

\* the input has a usable latest value and a previous value of 0
PreviousIsZero ==
    IF probe.f \in {"fromCBOE", "fromStooq"}
    THEN LET n == Len(ProbeLines)
         IN  /\ n >= 3
             /\ Len(ProbeLines[n]) >= 5 /\ IsFinite(NumberOf(ProbeLines[n][5]))
             /\ Len(ProbeLines[n - 1]) >= 5 /\ NumberOf(ProbeLines[n - 1][5]) = JNum(0)
    ELSE /\ Len(ValidObs) >= 2
         /\ probe.f = "dxy" => Len(NonSentinel) = Len(ValidObs)
         /\ ProbeNumber(ValidObs[PreviousAt].value).v = 0

\* C15: when the previous value is 0, an adapter that computes the change
\* percent from two observations returns a result with a finite price whose
\* change percent is null.
C15_ZeroPreviousGivesNull ==
    (probe.f \in PairAdapters /\ PreviousIsZero) =>
        /\ ProbeOk
        /\ IsFinite(ProbePrice)
        /\ ProbeChange = JNull

\* DXY: latest 120.004 after a previous value of 0 is answered with price
\* 120 and changePercent null
C15_Witness ==
    /\ probe.f = "dxy"
    /\ Len(ProbeObs) = 2
    /\ ProbeObs[1].value = JNumStr(120004)
    /\ ProbeObs[2].value = JNumStr(0)
    /\ probe.out.resp.statusCode = 200
    /\ probe.out.resp.body["price"] = JNum(120000)
    /\ probe.out.resp.body["changePercent"] = JNull

\* C16: whatever its components do, the aggregator answers 200 with a body
\* that has every key (spy, tsla, lit, yieldCurve, buffett, gold, dxy), each
\* holding the component's data or { error: message }; no exception leaves
\* the handler.
C16_AggregatorAlways200 ==
    /\ agg.pc # "thrown"
    /\ agg.pc = "done" =>
         /\ agg.resp.statusCode = 200
         /\ DOMAIN agg.resp.body = AggKeySet
         /\ \A k \in AggKeySet :
              /\ agg.results[k].t \in {"data", "json", "error"}
              /\ agg.results[k].t = "error" =>
                   /\ agg.results[k].error # ""
                   /\ agg.resp.body[k] = ("error" :> agg.results[k].error)
              /\ agg.results[k].t = "data" =>
                   DOMAIN agg.resp.body[k] = {"price", "pct"}

\* every component failed, the three quotes after their FMP fallback, and
\* the response is a 200 with seven error entries
C16_Witness ==
    /\ agg.pc = "done"
    /\ env.FMP_KEY /\ env.FRED_KEY
    /\ \A k \in AggKeySet : agg.results[k].t = "error"
    /\ agg.results["spy"].error = "Bad FMP data"
    /\ agg.results["dxy"].error = "No observations (DTWEXBGS)"
    /\ agg.resp.statusCode = 200

\* C17: the VIX cache is written only by the step in which an adapter
\* succeeds and an entry is never deleted; the step that ends a request in
\* which all adapters failed leaves the cache as it was, whether it serves
\* the entry or ignores it as stale, and what it serves is that entry's
\* price, change percent and source.  Hence all-fail requests with no
\* successful request between them serve the same values.
C17_CacheReadOnlyOnFailure ==
    [][/\ cached' # cached => (vix.pc = "await" /\ vix'.pc = "done" /\ vix'.won # 0)
       /\ cached # EmptyCache => cached' # EmptyCache
       /\ (vix.pc = "await" /\ vix'.pc = "done" /\ vix'.won = 0) =>
            /\ cached' = cached
            /\ vix'.resp.statusCode = 200 =>
                 /\ vix'.resp.body["price"] = cached.price
                 /\ vix'.resp.body["changePercent"] = cached.changePercent
                 /\ vix'.resp.body["source"] = cached.source \o " (cached)"]_vars

\* a request in which all adapters failed has served the entry Stooq wrote
\* within the same hour, and the entry is still in the cache
C17_Witness ==
    /\ VixAllFailed
    /\ vix.resp.statusCode = 200
    /\ vix.resp.body["source"] = "Stooq CSV (cached)"
    /\ cached.source = SrcStooq
    /\ VixAgeAtResponse = 0

\* the time-series adapters that report a latest and a previous value
SeriesPairAdapters == {"fromFRED", "dxy", "fredLatestPair", "aggFredLatestPair"}

\* C18 (as claimed): whatever the order of the observations, the price of a
\* time-series adapter's result is the value of the valid observation with
\* the greatest date.
C18_LatestByDate ==
    (probe.f \in SeriesPairAdapters /\ ProbeOk) =>
        \E k \in 1..Len(ValidObs) :
          /\ \A l \in 1..Len(ValidObs) : ValidObs[l].date <= ValidObs[k].date
          /\ ProbePrice \in PricesOf(ValidObs[k].value)

\* C18 (amended): a time-series adapter drops the sentinel and missing values
\* and then takes latest and previous by position in the order the provider
\* sent them, without looking at the dates: the first two remaining in
\* fromFRED and dxy.js (which ask for sort_order=desc), the last two in
\* both fredLatestPair helpers (which read the ascending series).
C18_LatestByPosition ==
    (probe.f \in SeriesPairAdapters /\ ProbeOk) =>
        /\ Len(ValidObs) >= 1
        /\ ProbePrice \in PricesOf(ValidObs[LatestAt].value)
        /\ ProbeChange.t = "num" =>
             /\ Len(ValidObs) >= 2
             /\ ProbeNumber(ValidObs[PreviousAt].value).v # 0
             /\ ProbeChange \in PctChange(ProbeNumber(ValidObs[LatestAt].value).v,
                                          ProbeNumber(ValidObs[PreviousAt].value).v)

\* fromFRED was given the observations oldest first: its price is the older
\* value 0, its change is computed against the newer value
C18_Witness ==
    /\ probe.f = "fromFRED"
    /\ ProbeObs = <<Obs(1, JNumStr(0)), Obs(2, JNumStr(20004))>>
    /\ probe.out.ok
    /\ probe.out.price = JNum(0)
    /\ probe.out.changePercent = JNum(-100000)

\* exactly one valid observation remains after filtering (for dxy.js, which
\* filters the sentinel only, nothing but the sentinel was dropped)
OneValidObs ==
    /\ probe.arg.t = "ok"
    /\ Len(ValidObs) = 1
    /\ probe.f = "dxy" => Len(NonSentinel) = 1

\* C19 (as claimed): with exactly one valid observation a time-series adapter
\* succeeds with that observation as price and a null change percent; the
\* change percent is a number only when two valid observations exist.
C19_SingleObservation ==
    probe.f \in SeriesPairAdapters =>
        /\ OneValidObs =>
             /\ ProbeOk
             /\ ProbePrice \in PricesOf(ValidObs[1].value)
             /\ ProbeChange = JNull
        /\ (ProbeOk /\ ProbeChange.t = "num") => Len(ValidObs) >= 2

\* C19 (amended): with exactly one valid observation fromFRED and both
\* fredLatestPair helpers succeed with that observation as price and a null
\* change percent, while dxy.js fails with 'Not enough DXY observations' and
\* answers 500; in every adapter the change percent is a number only when two
\* valid observations exist.
C19_SingleObservationAmended ==
    probe.f \in SeriesPairAdapters =>
        /\ (OneValidObs /\ probe.f # "dxy") =>
             /\ ProbeOk
             /\ ProbePrice \in PricesOf(ValidObs[1].value)
             /\ ProbeChange = JNull
        /\ (OneValidObs /\ probe.f = "dxy") =>
             /\ probe.out.err = "Not enough DXY observations"
             /\ probe.out.resp.statusCode = 500
        /\ (ProbeOk /\ ProbeChange.t = "num") => Len(ValidObs) >= 2

\* the aggregator's fredLatestPair was given a sentinel and one number
C19_Witness ==
    /\ probe.f = "aggFredLatestPair"
    /\ ProbeObs = <<Obs(1, JNumStr(20004)), Obs(2, Sentinel)>>
    /\ probe.out.ok
    /\ probe.out.price = JNum(20004)
    /\ probe.out.changePercent = JNull

VixUrls == <<UrlFRED, UrlFMP, UrlCBOE, UrlStooq>>

\* adapters started and not yet completed
VixInFlight == Len(vix.invoked) - Len(vix.tried)
GoldInFlight == Len(gold.invoked) - Len(gold.tried) - (IF gold.won # 0 THEN 1 ELSE 0)

\* C20: within one request the adapters are started in list order, each at
\* most once, adapter k only after adapters 1..k-1 have each completed with a
\* failure, and at most one adapter is in flight: exactly one while the
\* request awaits, none once it has answered.
C20_SequentialScan ==
    /\ vix.invoked = SubSeq(VixAdapters, 1, Len(vix.invoked))
    /\ VixInFlight = (IF vix.pc = "await" THEN 1 ELSE 0)
    /\ \A j \in 1..Len(vix.tried) :
         /\ vix.tried[j].src = VixAdapters[j]
         /\ j < Len(vix.invoked) => ~vix.tried[j].ok
    /\ vix.pc = "await" =>
         /\ vix.adapter = Len(vix.invoked)
         /\ call.url = VixUrls[vix.adapter]
         /\ call.pc \in {"fetch", "sleep"}
    /\ gold.invoked = SubSeq(GoldAttempts, 1, Len(gold.invoked))
    /\ GoldInFlight = (IF gold.pc = "await" THEN 1 ELSE 0)
    /\ gold.pc = "await" => gold.adapter = Len(gold.invoked)
    /\ gold.won # 0 => Len(gold.tried) = gold.won - 1

\* CBOE is in flight after FRED and FMP have failed, Stooq was not started
C20_Witness ==
    /\ vix.pc = "await"
    /\ vix.invoked = <<"FRED", "FMP", "CBOE">>
    /\ Len(vix.tried) = 2
    /\ call.url = UrlCBOE
    /\ call.pc = "fetch"

\* answers that came with a success status: the body read, or res.json() threw
SuccessStatus == {"ok", "bodyfail"}

\* C21: within a VIX request, an answer with a success HTTP status whose body
\* cannot be parsed or has the wrong shape is the last request its adapter
\* sends: no request to that provider follows it.
C21_ShapeFailureNotRetried ==
    fn = "vix" =>
        \A j \in 1..Len(call.seen) :
            call.seen[j] \in SuccessStatus => call.sent = j

\* the response was built from the cache (vixIndex.js:223-237)
FromCache(resp) == resp.statusCode = 200 /\ "_debug" \in DOMAIN resp.body

\* the response shows write w, made less than two hours before it
ServesWrite(resp, w) ==
    /\ resp.body["price"] = Stringify(w.price)
    /\ resp.body["changePercent"] = Stringify(w.changePercent)
    /\ resp.body["source"] = w.source \o " (cached)"
    /\ resp.body["timestamp"] - w.timestamp \in 0..(FreshMs - 1)

LastWrite == IF writes = <<>> THEN EmptyCache ELSE writes[Len(writes)]

\* C22: however invocations interleave, the cache is the initial entry until
\* the first write and from then on exactly the last value written (one
\* adapter result with the time of that write), and a response built from the
\* cache shows price, changePercent and source of one single write that was
\* fresh when it was served: the one in the cache at that moment.
C22_LastWriteWins ==
    /\ [](/\ cached = LastWrite
          /\ \A i \in Requests :
               FromCache(reqs[i].vix.resp) =>
                   \E j \in 1..Len(writes) : ServesWrite(reqs[i].vix.resp, writes[j]))
    /\ [][\A i \in Requests :
            (reqs[i].vix.pc = "await" /\ FromCache(reqs'[i].vix.resp)) =>
                /\ ServesWrite(reqs'[i].vix.resp, cached)
                /\ cached' = cached]_vars

\* two invocations were in flight at once and both wrote: the cache holds the
\* later result, which differs from the earlier one
C22_Witness ==
    /\ Len(writes) = MaxWrites + 1
    /\ \A i \in Requests : reqs[i].vix.pc = "done" /\ reqs[i].vix.won # 0
    /\ reqs[1].vix.won # reqs[2].vix.won
    /\ cached = writes[Len(writes)]
    /\ cached.source # writes[Len(writes) - 1].source

\* C23: every adapter failure of a chain adds one diagnostics entry, in the
\* order the adapters were tried, and the chain goes on with the next
\* adapter; the entry carries its adapter's label and the error message. A
\* VIX entry has the label as its src field. A gold entry is one string, so
\* it can carry its adapter's label only if no other adapter of the chain
\* ever records the same string.
C23_DiagnosticsLabelled ==
    /\ \A j \in 1..Len(vix.tried) :
         /\ vix.tried[j].src = VixAdapters[j]
         /\ ~vix.tried[j].ok => vix.tried[j].err # ""
    /\ vix.pc = "await" => Len(vix.tried) = vix.adapter - 1
    /\ gold.pc = "await" => Len(gold.tried) = gold.adapter - 1
    /\ \A j \in 1..Len(gold.tried) :
         /\ gold.tried[j] # ""
         /\ \A k \in 1..Len(gold.tried) : gold.tried[j] = gold.tried[k] => j = k

\* how often the invocation requested address u
TimesRequested(u) == Len(SelectSeq(net, LAMBDA x : x = u))

\* C24: when every pending request settles and every backoff timer fires, an
\* invoked VIX handler ends with a response, and only one: it sends at most 9
\* requests (FRED at most 3, FMP, CBOE and Stooq at most 2 each), has no
\* response while it runs, has one and nothing pending once it has ended, and
\* no error of a transport call is left uncaught.
C24_Terminates ==
    /\ [](/\ Len(net) <= 9
          /\ TimesRequested(UrlFRED) <= 3
          /\ TimesRequested(UrlFMP) <= 2
          /\ TimesRequested(UrlCBOE) <= 2
          /\ TimesRequested(UrlStooq) <= 2
          /\ call.pc # "thrown"
          /\ vix.pc \in {"idle", "await", "done"}
          /\ vix.pc = "await" => vix.resp = NoResp /\ call.pc \in {"fetch", "sleep"}
          /\ vix.pc = "done" => vix.resp.statusCode \in {200, 500} /\ call = NoCall)
    /\ [][vix.pc = "done" => vix' = vix /\ net' = net]_vars
    /\ (vix.pc = "await") ~> (vix.pc = "done")

\* all nine requests were sent and failed: the handler answered 500
C24_Witness ==
    /\ vix.pc = "done"
    /\ Len(net) = 9
    /\ TimesRequested(UrlFRED) = 3
    /\ TimesRequested(UrlStooq) = 2
    /\ Len(vix.tried) = 4
    /\ vix.resp.statusCode = 500

====
